---- MODULE Spec2Model ----
(***************************************************************************)
(* A model of the Manuscriptify (Chaptercraft) React frontend:             *)
(*   - the Progress Tracker's polling loop       (ProgressTracker.js)      *)
(*   - the session store of the application shell (App.js)                 *)
(*   - the Project Creator's upload and submit handlers (ProjectCreator)   *)
(*   - the Dashboard and the Project Editor     (Dashboard, ProjectEditor) *)
(*   - the landing page's pricing section         (App.js)                 *)
(*   - the payment pages and their hook (useStripe, Pricing,               *)
(*     PaymentSuccess)                                                     *)
(* Each component is a state machine over its React state, the timers it   *)
(* registered and the HTTP requests it has in flight.  Time is counted in  *)
(* whole seconds; a timer fires when the clock equals its due time, and    *)
(* the clock does not advance past a timer that is due.                    *)
(***************************************************************************)
EXTENDS Integers, Sequences, FiniteSets, TLC

VARIABLES
    \* ---- Progress Tracker (ProgressTracker.js) ----
    now,          \* the clock, in seconds
    ptPhase,      \* "rendered" (before the effect ran), "mounted", "unmounted"
    interval,     \* <<>> or <<due>>: the setInterval handle and its next due time
    navTimers,    \* due times of the pending setTimeout(navigate) timers, in creation order
    requests,     \* number of GET /api/progress requests the server has not served yet
    responses,    \* responses on their way to the client (delivered in any order)
    srvProgress,  \* the server-side job's overall_progress
    progress,     \* useState(null): <<>> or <<overall_progress>>
    ptLoading,    \* useState(true)
    error,        \* useState(null): "null" or the message
    route,        \* the router's location: "progress", "project" or "dashboard"
    issued,       \* history: number of progress requests issued
    ticks,        \* history: number of interval ticks fired
    navCount,     \* history: number of navigate(`/project/${projectId}`) calls
    hundredAt,    \* history: <<>> or <<time of the first response reporting 100>>
    navAt,        \* history: <<>> or <<time of the first navigate call>>
    seen404,      \* history: a 404 response has been handled while mounted
    \* ---- session store (App.js) ----
    user,         \* useState(null): <<>> or <<the user record>>
    localStorage, \* key 'manuscriptify_user': <<>> (absent) or <<the stored text>>
    authHeader,   \* axios.defaults.headers.common['Authorization']: <<>> or <<"Bearer", token>>
    appLoading,   \* useState(true)
    showAuth,     \* useState(false)
    loginArg,     \* history: <<the userData of the last login>>, <<>> after a logout
    loggedOut,    \* history: the last session operation was a logout
    reloaded,     \* history: the page was reloaded since the last login or logout
    lastReqAuth,  \* history: <<>> or <<Authorization header of the last request issued>>
    path,         \* the router's location in the application shell
    pending,      \* number of requests of the views awaiting their response
    lastStatus,   \* history: HTTP status of the last response handled, 0 before any
    lastOp,       \* history: the last operation of the shell
    \* ---- Project Creator (ProjectCreator) ----
    activeTab,    \* useState('prompt'): "prompt" or "upload"
    title,        \* formData.title, a text (sequence of characters)
    prompt,       \* formData.prompt
    content,      \* formData.content
    genre,        \* formData.genre
    uploadedFile, \* useState(null): <<>> or <<[extracted_text |-> text]>>
    pcLoading,    \* useState(false)
    uploads,      \* number of POST /api/files/upload requests in flight
    lastDrop,     \* history: the files of the last drop
    sub,          \* <<>> or <<the submission being followed>>: what handleSubmit
                  \* captured, where it stands, and the calls it made
    pcRoute,      \* the router's location: "create", "progress", "project", "dashboard"
    \* ---- Dashboard (Dashboard.js), Project Editor (ProjectEditor), server ----
    srvStatus,    \* the server's projects: id -> status, "gone" once deleted
    wsRoute,      \* the router's location: "dashboard", "project", "progress"
    projects,     \* Dashboard useState([]): sequence of [id, status]
    dbLoading,    \* Dashboard useState(true)
    stats,        \* Dashboard useState({total: 0, completed: 0, processing: 0})
    lastList,     \* history: the list of the last response fetchProjects applied
    dbReqs,       \* the Dashboard's requests in flight
    peId,         \* useParams().projectId of the mounted editor, 0 when none
    project,      \* ProjectEditor useState(null): <<>> or <<the project record>>
    peLoading,    \* ProjectEditor loading, useState(true)
    saving,       \* useState(false)
    coverGenerating, \* useState(false)
    audioGenerating, \* useState(false)
    peTitle,      \* ProjectEditor title, useState('')
    peAuthor,     \* ProjectEditor author
    peDescription, \* ProjectEditor description
    peContent,    \* ProjectEditor content
    lastDetail,   \* history: <<status of the last response fetchProject applied>>
    together,     \* history: a save and a cover generation were in flight together
    peReqs,       \* the Project Editor's requests in flight
    edits,        \* number of edits of the editor's fields
    \* ---- Project Creator, the catch block of handleSubmit ----
    errDetail,    \* error.response?.data?.detail: <<>> (absent) or <<the JSON value>>
    errCaught,    \* "no" before the catch block ran, then "shown" or "thrown"
    errToast,     \* <<>> or <<the message passed to toast.error>>
    \* ---- landing page (App.js: LandingPage, DynamicPricing) ----
    lpMounted,    \* a LandingPage instance is mounted
    subscriptionPlans, \* DynamicPricing useState([]): sequence of plan ids
    dpLoading,    \* DynamicPricing useState(true)
    dpLive,       \* GET /api/subscription-plans requests of the mounted instance in flight
    dpDead,       \* such requests of unmounted instances in flight
    dpToast,      \* <<>> or <<the message of the toast shown by DynamicPricing>>
    dpUncaught,   \* an error escaped a handler of DynamicPricing since the page was loaded
    dpFailed,     \* history: the mounted instance has handled a failed plans request
    subPosts,     \* history: number of POST /api/payments/create-subscription issued
    \* ---- payments (useStripe hook, Pricing, PaymentSuccess) ----
    payView,      \* the page: "pricing", "success", "stripe" (redirected away), "other"
    payPhase,     \* "rendered" (before the effects ran), "mounted", "unmounted"
    payUser,      \* the user prop: a user is signed in
    stripeConfig, \* useStripe useState(null): <<>> or <<the configuration>>
    hkLoading,    \* useStripe loading, useState(true)
    hkError,      \* useStripe error, useState(null): <<>> or <<the message>>
    selectedPlan, \* Pricing useState(null): <<>> or <<plan id>>
    processingPlan, \* Pricing useState(null): <<>> or <<plan id>>
    sessionId,    \* searchParams.get('session_id'): <<>> (null) or <<the text>>
    sessionData,  \* PaymentSuccess useState(null): <<>> or <<the session>>
    psLoading,    \* PaymentSuccess loading, useState(true)
    psError,      \* PaymentSuccess error, useState(null): <<>> or <<the message>>
    payReqs,      \* the requests of the payment pages in flight
    location,     \* <<>> or <<the URL assigned to window.location.href>>
    payToast,     \* <<>> or <<the message the last step passed to toast.error>>
    payIssued,    \* history: the kinds of request issued since the page was rendered
    payLast       \* history: the last handler that ran and how it ended

ptVars == <<now, ptPhase, interval, navTimers, requests, responses, srvProgress,
            progress, ptLoading, error, route, issued, ticks, navCount,
            hundredAt, navAt, seen404>>

sessVars == <<user, localStorage, authHeader, appLoading, showAuth, loginArg,
              loggedOut, reloaded, lastReqAuth, path, pending, lastStatus,
              lastOp>>

pcVars == <<activeTab, title, prompt, content, genre, uploadedFile, pcLoading,
            uploads, lastDrop, sub, pcRoute>>

wsVars == <<srvStatus, wsRoute, projects, dbLoading, stats, lastList, dbReqs,
            peId, project, peLoading, saving, coverGenerating, audioGenerating,
            peTitle, peAuthor, peDescription, peContent, lastDetail, together, peReqs, edits>>

errVars == <<errDetail, errCaught, errToast>>

lpVars == <<lpMounted, subscriptionPlans, dpLoading, dpLive, dpDead, dpToast,
            dpUncaught, dpFailed, subPosts>>

payVars == <<payView, payPhase, payUser, stripeConfig, hkLoading, hkError,
             selectedPlan, processingPlan, sessionId, sessionData, psLoading,
             psError, payReqs, location, payToast, payIssued, payLast>>

vars == <<ptVars, sessVars, pcVars, wsVars, errVars, lpVars, payVars>>

notPT == <<sessVars, pcVars, wsVars, errVars, lpVars, payVars>>
notSess == <<ptVars, pcVars, wsVars, errVars, lpVars, payVars>>
notPC == <<ptVars, sessVars, wsVars, errVars, lpVars, payVars>>
notWS == <<ptVars, sessVars, pcVars, errVars, lpVars, payVars>>
notErr == <<ptVars, sessVars, pcVars, wsVars, lpVars, payVars>>
notLP == <<ptVars, pcVars, wsVars, errVars, payVars>>
notPay == <<ptVars, sessVars, pcVars, wsVars, errVars, lpVars>>

\* ------------------------------------------------------------------ bounds
MaxTime == 5
MaxInflight == 2
MaxUploads == 1
MaxPending == 1
MaxReqs == 2
MaxEdits == 1
MaxItems == 2

\* ------------------------------------------------- ProgressTracker.js
PollIntervalSec == 2
RedirectDelaySec == 2

\* overall_progress values the server may report (the endpoint is external:
\* nothing in the client restricts the value to 0..100)
ProgressValues == {-10, 0, 40, 100, 150}

NotFoundMsg == "Progress tracking not found for this project"
FailedMsg == "Failed to fetch progress"

\* A response of GET /api/progress/{id}: status 200 carries overall_progress,
\* 404 is "no tracking", 500 stands for every other failure.
Responses ==
    [status : {200}, overall_progress : ProgressValues]
        \cup [status : {404, 500}, overall_progress : {0}]

RemoveAt(s, i) == SubSeq(s, 1, i - 1) \o SubSeq(s, i + 1, Len(s))

PTInit ==
    /\ now = 0
    /\ ptPhase = "rendered"
    /\ interval = <<>>
    /\ navTimers = <<>>
    /\ requests = 0
    /\ responses = <<>>
    /\ srvProgress \in ProgressValues
    /\ progress = <<>>
    /\ ptLoading = TRUE
    /\ error = "null"
    /\ route = "progress"
    /\ issued = 0
    /\ ticks = 0
    /\ navCount = 0
    /\ hundredAt = <<>>
    /\ navAt = <<>>
    /\ seen404 = FALSE

\* Faulty variant: a fetch that is skipped while an earlier request is unanswered
fetchProgressIssue_dedup ==
    IF requests > 0
      THEN UNCHANGED <<requests, issued>>
      ELSE requests' = requests + 1 /\ issued' = issued + 1

\* fetchProgress up to its await: axios.get is issued, unconditionally.
fetchProgressIssue ==
    /\ requests' = requests + 1
    /\ issued' = issued + 1

\* useEffect: fetchProgress(); setInterval(fetchProgress, 2000)
PTMount ==
    /\ ptPhase = "rendered"
    /\ requests + Len(responses) < MaxInflight
    /\ ptPhase' = "mounted"
    /\ fetchProgressIssue
    /\ interval' = <<now + PollIntervalSec>>
    /\ UNCHANGED <<now, navTimers, responses, srvProgress, progress, ptLoading,
                   error, route, ticks, navCount, hundredAt, navAt, seen404>>
    /\ UNCHANGED notPT

\* One tick of setInterval(fetchProgress, 2000).
IntervalTick ==
    /\ interval # <<>>
    /\ interval[1] = now
    /\ requests + Len(responses) < MaxInflight
    /\ fetchProgressIssue
    /\ ticks' = ticks + 1
    /\ interval' = <<now + PollIntervalSec>>
    /\ UNCHANGED <<now, ptPhase, navTimers, responses, srvProgress, progress,
                   ptLoading, error, route, navCount, hundredAt, navAt, seen404>>
    /\ UNCHANGED notPT

\* Faulty variant: a cleanup that forgets clearInterval
Cleanup_leak ==
    /\ ptPhase' = "unmounted"
    /\ UNCHANGED interval

\* The effect's cleanup: clearInterval(interval).  Pending setTimeout timers
\* and requests in flight are not touched.
Cleanup ==
    /\ ptPhase' = "unmounted"
    /\ interval' = <<>>

\* The user leaves the page by hand ("Back to Dashboard", a header link).
UserNavigate ==
    /\ route # "dashboard"
    /\ ptPhase # "rendered"
    /\ route' = "dashboard"
    /\ IF ptPhase = "mounted" THEN Cleanup ELSE UNCHANGED <<ptPhase, interval>>
    /\ UNCHANGED <<now, navTimers, requests, responses, srvProgress, progress,
                   ptLoading, error, issued, ticks, navCount, hundredAt, navAt,
                   seen404>>
    /\ UNCHANGED notPT

\* The server-side job moves on.
ServerAdvance ==
    /\ \E v \in ProgressValues : v > srvProgress /\ srvProgress' = v
    /\ UNCHANGED <<now, ptPhase, interval, navTimers, requests, responses,
                   progress, ptLoading, error, route, issued, ticks, navCount,
                   hundredAt, navAt, seen404>>
    /\ UNCHANGED notPT

\* The server serves one request: the snapshot, a 404 or another failure.
ServerServe ==
    /\ requests > 0
    /\ requests' = requests - 1
    /\ \E r \in Responses :
          /\ r.status = 200 => r.overall_progress = srvProgress
          /\ responses' = Append(responses, r)
    /\ UNCHANGED <<now, ptPhase, interval, navTimers, srvProgress, progress,
                   ptLoading, error, route, issued, ticks, navCount, hundredAt,
                   navAt, seen404>>
    /\ UNCHANGED notPT

\* Faulty variant: a successful response that leaves the error message set
fetchProgressResume_keepError(r) ==
    /\ IF r.status = 200
         THEN /\ progress' = IF ptPhase = "mounted" THEN <<r.overall_progress>>
                                                    ELSE progress
              /\ navTimers' = IF r.overall_progress = 100
                                THEN Append(navTimers, now + RedirectDelaySec)
                                ELSE navTimers
              /\ hundredAt' = IF r.overall_progress = 100 /\ hundredAt = <<>>
                                THEN <<now>> ELSE hundredAt
              /\ UNCHANGED <<seen404, error>>
         ELSE /\ error' = IF ptPhase # "mounted" THEN error
                          ELSE IF r.status = 404 THEN NotFoundMsg ELSE FailedMsg
              /\ seen404' = (seen404 \/ (ptPhase = "mounted" /\ r.status = 404))
              /\ UNCHANGED <<progress, navTimers, hundredAt>>
    /\ ptLoading' = IF ptPhase = "mounted" THEN FALSE ELSE ptLoading

\* Faulty variant: a redirect scheduled for every overall_progress of 100 or more
fetchProgressResume_atLeast100(r) ==
    /\ IF r.status = 200
         THEN /\ progress' = IF ptPhase = "mounted" THEN <<r.overall_progress>>
                                                    ELSE progress
              /\ error' = IF ptPhase = "mounted" THEN "null" ELSE error
              /\ navTimers' = IF r.overall_progress >= 100
                                THEN Append(navTimers, now + RedirectDelaySec)
                                ELSE navTimers
              /\ hundredAt' = IF r.overall_progress = 100 /\ hundredAt = <<>>
                                THEN <<now>> ELSE hundredAt
              /\ UNCHANGED seen404
         ELSE /\ error' = IF ptPhase # "mounted" THEN error
                          ELSE IF r.status = 404 THEN NotFoundMsg ELSE FailedMsg
              /\ seen404' = (seen404 \/ (ptPhase = "mounted" /\ r.status = 404))
              /\ UNCHANGED <<progress, navTimers, hundredAt>>
    /\ ptLoading' = IF ptPhase = "mounted" THEN FALSE ELSE ptLoading

\* fetchProgress after its await, for response r.  State setters of an
\* unmounted component do nothing; the setTimeout is registered regardless.
fetchProgressResume(r) ==
    /\ IF r.status = 200
         THEN /\ progress' = IF ptPhase = "mounted" THEN <<r.overall_progress>>
                                                    ELSE progress
              /\ error' = IF ptPhase = "mounted" THEN "null" ELSE error
              /\ navTimers' = IF r.overall_progress = 100
                                THEN Append(navTimers, now + RedirectDelaySec)
                                ELSE navTimers
              /\ hundredAt' = IF r.overall_progress = 100 /\ hundredAt = <<>>
                                THEN <<now>> ELSE hundredAt
              /\ UNCHANGED seen404
         ELSE /\ error' = IF ptPhase # "mounted" THEN error
                          ELSE IF r.status = 404 THEN NotFoundMsg ELSE FailedMsg
              /\ seen404' = (seen404 \/ (ptPhase = "mounted" /\ r.status = 404))
              /\ UNCHANGED <<progress, navTimers, hundredAt>>
    /\ ptLoading' = IF ptPhase = "mounted" THEN FALSE ELSE ptLoading

\* A response reaches the client (in any order).
Receive ==
    /\ \E i \in 1..Len(responses) :
          /\ fetchProgressResume(responses[i])
          /\ responses' = RemoveAt(responses, i)
    /\ UNCHANGED <<now, ptPhase, interval, requests, srvProgress, route, issued,
                   ticks, navCount, navAt>>
    /\ UNCHANGED notPT

\* A setTimeout(() => navigate(`/project/${projectId}`), 2000) fires.  The
\* route change unmounts the tracker when it is still mounted.
NavTimerFire ==
    /\ navTimers # <<>>
    /\ Head(navTimers) = now
    /\ navTimers' = Tail(navTimers)
    /\ route' = "project"
    /\ navCount' = navCount + 1
    /\ navAt' = IF navAt = <<>> THEN <<now>> ELSE navAt
    /\ IF ptPhase = "mounted" THEN Cleanup ELSE UNCHANGED <<ptPhase, interval>>
    /\ UNCHANGED <<now, requests, responses, srvProgress, progress, ptLoading,
                   error, issued, ticks, hundredAt, seen404>>
    /\ UNCHANGED notPT

TimerDue ==
    \/ interval # <<>> /\ interval[1] = now
    \/ navTimers # <<>> /\ Head(navTimers) = now

\* One second passes; timers that are due fire first, and the effect of the
\* first render runs before any time passes.
Advance ==
    /\ now < MaxTime
    /\ ptPhase # "rendered"
    /\ ~TimerDue
    /\ now' = now + 1
    /\ UNCHANGED <<ptPhase, interval, navTimers, requests, responses,
                   srvProgress, progress, ptLoading, error, route, issued,
                   ticks, navCount, hundredAt, navAt, seen404>>
    /\ UNCHANGED notPT

PTNext ==
    \/ PTMount
    \/ IntervalTick
    \/ UserNavigate
    \/ ServerAdvance
    \/ ServerServe
    \/ Receive
    \/ NavTimerFire
    \/ Advance

\* ------------------------------------------------------------- App.js
Undefined == "<undefined>"

\* JavaScript truthiness of a string-valued field.
Truthy(v) == v # Undefined /\ v # ""

Keys == <<"email", "full_name", "subscription_tier", "access_token">>

\* The user records the login endpoint may hand to handleLogin.
Users ==
    [email : {"a@b.com"},
     full_name : {"Ann", Undefined},
     subscription_tier : {"free", "admin"},
     access_token : {"t1", "t2", "", Undefined}]

\* JSON.stringify of a user record: the members in key order, those whose
\* value is undefined left out.  The text is kept as its member list.
RECURSIVE Members(_, _)
Members(u, i) ==
    IF i > Len(Keys) THEN <<>>
    ELSE IF u[Keys[i]] = Undefined THEN Members(u, i + 1)
    ELSE <<(<<Keys[i], u[Keys[i]]>>)>> \o Members(u, i + 1)

\* Faulty variant: a serialisation that leaves the credential out
JSONstringify_noToken(u) ==
    SelectSeq(Members(u, 1), LAMBDA m : m[1] # "access_token")

JSONstringify(u) == Members(u, 1)

\* JSON.parse: the record of the members; reading a key the text does not
\* hold yields undefined.
Lookup(text, k) ==
    IF \E i \in 1..Len(text) : text[i][1] = k
      THEN text[CHOOSE i \in 1..Len(text) : text[i][1] = k][2]
      ELSE Undefined

JSONparse(text) == [k \in {Keys[i] : i \in 1..Len(Keys)} |-> Lookup(text, k)]

Bearer(token) == <<"Bearer", token>>

\* The locations of the routes of App.js (ids of /project/:id and
\* /progress/:id left out).
Paths == {"/", "/dashboard", "/create", "/project", "/progress", "/admin"}

Statuses == {200, 401, 500}

NavigateTo == {[to |-> p] : p \in Paths}

View(name) == [view |-> name]

\* Faulty variant: the admin route guarded like the other protected routes
RouteElement_adminForAnyUser(p, u) ==
    CASE p = "/" -> IF u # <<>> THEN [to |-> "/dashboard"] ELSE View("LandingPage")
      [] p = "/dashboard" -> IF u # <<>> THEN View("Dashboard") ELSE [to |-> "/"]
      [] p = "/create" -> IF u # <<>> THEN View("ProjectCreator") ELSE [to |-> "/"]
      [] p = "/project" -> IF u # <<>> THEN View("ProjectEditor") ELSE [to |-> "/"]
      [] p = "/progress" -> IF u # <<>> THEN View("ProgressTracker") ELSE [to |-> "/"]
      [] p = "/admin" -> IF u # <<>> THEN View("AdminPanel") ELSE [to |-> "/"]

\* Faulty variant: the landing page rendered at "/" whoever is signed in
RouteElement_landingForAnyone(p, u) ==
    CASE p = "/" -> View("LandingPage")
      [] p = "/dashboard" -> IF u # <<>> THEN View("Dashboard") ELSE [to |-> "/"]
      [] p = "/create" -> IF u # <<>> THEN View("ProjectCreator") ELSE [to |-> "/"]
      [] p = "/project" -> IF u # <<>> THEN View("ProjectEditor") ELSE [to |-> "/"]
      [] p = "/progress" -> IF u # <<>> THEN View("ProgressTracker") ELSE [to |-> "/"]
      [] p = "/admin" -> IF u # <<>> /\ u[1].subscription_tier = "admin"
                           THEN View("AdminPanel") ELSE [to |-> "/"]

\* <Routes>: the element of the route matching location p for user state u.
RouteElement(p, u) ==
    CASE p = "/" -> IF u # <<>> THEN [to |-> "/dashboard"] ELSE View("LandingPage")
      [] p = "/dashboard" -> IF u # <<>> THEN View("Dashboard") ELSE [to |-> "/"]
      [] p = "/create" -> IF u # <<>> THEN View("ProjectCreator") ELSE [to |-> "/"]
      [] p = "/project" -> IF u # <<>> THEN View("ProjectEditor") ELSE [to |-> "/"]
      [] p = "/progress" -> IF u # <<>> THEN View("ProgressTracker") ELSE [to |-> "/"]
      [] p = "/admin" -> IF u # <<>> /\ u[1].subscription_tier = "admin"
                           THEN View("AdminPanel") ELSE [to |-> "/"]

\* Faulty variant: the routes rendered without the loading gate
Rendered_noGate == RouteElement(path, user)

\* What App renders: the loading screen while loading, else the routes.
Rendered ==
    IF appLoading THEN View("loading") ELSE RouteElement(path, user)

SessInit ==
    /\ user = <<>>
    /\ localStorage \in {<<>>} \cup {<<JSONstringify(u)>> : u \in Users}
    /\ authHeader = <<>>
    /\ appLoading = TRUE
    /\ showAuth = FALSE
    /\ loginArg = <<>>
    /\ loggedOut = FALSE
    /\ reloaded = FALSE
    /\ lastReqAuth = <<>>
    /\ path \in Paths
    /\ pending = 0
    /\ lastStatus = 0
    /\ lastOp = "start"

\* App's useEffect(..., []): restore the persisted session, then lift the
\* loading gate.
AppUseEffect ==
    /\ appLoading
    /\ IF localStorage # <<>>
         THEN LET userData == JSONparse(localStorage[1]) IN
              /\ user' = <<userData>>
              /\ authHeader' = IF Truthy(userData.access_token)
                                 THEN Bearer(userData.access_token)
                                 ELSE authHeader
         ELSE UNCHANGED <<user, authHeader>>
    /\ appLoading' = FALSE
    /\ lastOp' = "restore"
    /\ UNCHANGED <<localStorage, showAuth, loginArg, loggedOut, reloaded,
                   lastReqAuth, path, pending, lastStatus>>
    /\ UNCHANGED notSess

\* handleLogin(userData)
handleLogin(userData) ==
    /\ ~appLoading
    /\ user' = <<userData>>
    /\ localStorage' = <<JSONstringify(userData)>>
    /\ authHeader' = IF Truthy(userData.access_token)
                       THEN Bearer(userData.access_token)
                       ELSE authHeader
    /\ showAuth' = FALSE
    /\ loginArg' = <<userData>>
    /\ loggedOut' = FALSE
    /\ reloaded' = FALSE
    /\ lastReqAuth' = <<>>
    /\ lastOp' = "login"
    /\ UNCHANGED <<appLoading, path, pending, lastStatus>>
    /\ UNCHANGED notSess

Login == \E userData \in Users : handleLogin(userData)

\* Faulty variant: a logout that keeps the Authorization header
handleLogout_keepHeader ==
    /\ ~appLoading
    /\ user' = <<>>
    /\ localStorage' = <<>>
    /\ loginArg' = <<>>
    /\ loggedOut' = TRUE
    /\ reloaded' = FALSE
    /\ lastReqAuth' = <<>>
    /\ lastOp' = "logout"
    /\ UNCHANGED <<authHeader, appLoading, showAuth, path, pending, lastStatus>>
    /\ UNCHANGED notSess

\* handleLogout()
handleLogout ==
    /\ ~appLoading
    /\ user' = <<>>
    /\ localStorage' = <<>>
    /\ authHeader' = <<>>
    /\ loginArg' = <<>>
    /\ loggedOut' = TRUE
    /\ reloaded' = FALSE
    /\ lastReqAuth' = <<>>
    /\ lastOp' = "logout"
    /\ UNCHANGED <<appLoading, showAuth, path, pending, lastStatus>>
    /\ UNCHANGED notSess

\* onShowAuth / the modal's onClose: setShowAuth(true / false)
ToggleAuth ==
    /\ ~appLoading
    /\ showAuth' = ~showAuth
    /\ lastOp' = "toggleAuth"
    /\ UNCHANGED <<user, localStorage, authHeader, appLoading, loginArg,
                   loggedOut, reloaded, lastReqAuth, path, pending, lastStatus>>
    /\ UNCHANGED notSess

\* Any view issues a request through axios: it carries the default
\* Authorization header of that moment.  Views exist only past the loading
\* gate.
IssueRequest ==
    /\ ~appLoading
    /\ pending < MaxPending
    /\ pending' = pending + 1
    /\ lastReqAuth' = <<authHeader>>
    /\ lastOp' = "request"
    /\ UNCHANGED <<user, localStorage, authHeader, appLoading, showAuth,
                   loginArg, loggedOut, reloaded, path, lastStatus>>
    /\ UNCHANGED notSess

\* Faulty variant: a 401 response forces a logout
RequestSettles_forcedLogout(status) ==
    /\ pending > 0
    /\ pending' = pending - 1
    /\ lastStatus' = status
    /\ lastOp' = "response"
    /\ IF status = 401
         THEN /\ user' = <<>>
              /\ localStorage' = <<>>
              /\ authHeader' = <<>>
         ELSE UNCHANGED <<user, localStorage, authHeader>>
    /\ UNCHANGED <<appLoading, showAuth, loginArg, loggedOut, reloaded,
                   lastReqAuth, path>>
    /\ UNCHANGED notSess

\* A request of a view settles with an HTTP status.  The handlers of the
\* views (here Dashboard's fetchProjects) store the data of a success in
\* their own state and, on any failure, show a toast; none of them reads the
\* status code or touches the session.
RequestSettles(status) ==
    /\ pending > 0
    /\ pending' = pending - 1
    /\ lastStatus' = status
    /\ lastOp' = "response"
    /\ UNCHANGED <<user, localStorage, authHeader, appLoading, showAuth,
                   loginArg, loggedOut, reloaded, lastReqAuth, path>>
    /\ UNCHANGED notSess

Settle == \E status \in Statuses : RequestSettles(status)

\* The location changes on the client: a link of the header or of a view,
\* the back button.
GoTo ==
    /\ ~appLoading
    /\ \E p \in Paths \ {path} : path' = p
    /\ lastOp' = "goto"
    /\ UNCHANGED <<user, localStorage, authHeader, appLoading, showAuth,
                   loginArg, loggedOut, reloaded, lastReqAuth, pending,
                   lastStatus>>
    /\ UNCHANGED notSess

\* A rendered <Navigate to=... /> element replaces the location.
Redirect ==
    /\ Rendered \in NavigateTo
    /\ path' = Rendered.to
    /\ lastOp' = "redirect"
    /\ UNCHANGED <<user, localStorage, authHeader, appLoading, showAuth,
                   loginArg, loggedOut, reloaded, lastReqAuth, pending,
                   lastStatus>>
    /\ UNCHANGED notSess

\* The page is reloaded: the module state is rebuilt (useState initial
\* values, axios defaults), local storage is kept.
Reload ==
    /\ user' = <<>>
    /\ authHeader' = <<>>
    /\ appLoading' = TRUE
    /\ showAuth' = FALSE
    /\ reloaded' = TRUE
    /\ lastReqAuth' = <<>>
    /\ pending' = 0
    /\ lastOp' = "reload"
    /\ UNCHANGED <<localStorage, loginArg, loggedOut, path, lastStatus>>
    /\ UNCHANGED notSess

SessNext ==
    \/ AppUseEffect
    \/ Login
    \/ handleLogout
    \/ ToggleAuth
    \/ IssueRequest
    \/ Settle
    \/ GoTo
    \/ Redirect
    \/ Reload

\* ----------------------------------------------------- ProjectCreator
\* Texts are sequences of characters, so that trim() is computed.
Texts == {<<>>, <<" ">>, <<"a">>}

RECURSIVE TrimStart(_)
TrimStart(s) ==
    IF s = <<>> THEN s
    ELSE IF Head(s) = " " THEN TrimStart(Tail(s))
    ELSE s

RECURSIVE TrimEnd(_)
TrimEnd(s) ==
    IF s = <<>> THEN s
    ELSE IF s[Len(s)] = " " THEN TrimEnd(SubSeq(s, 1, Len(s) - 1))
    ELSE s

\* String.prototype.trim
Trim(s) == TrimEnd(TrimStart(s))

\* Keys of genreConfig: the one the handlers single out and one of the four
\* they treat alike.
Genres == {"ebook", "audiobook"}

\* Files the user may drop: the size in MB and the type the browser reports.
maxSize == 25
FileTypes == {"txt", "pdf", "docx", "png"}
Files == [size : {maxSize, maxSize + 1}, type : FileTypes]

\* What one drop may hold: nothing, one file, or two files of full size.
Drops ==
    {<<>>} \cup {<<f>> : f \in Files}
        \cup {<<f, g>> : f \in {h \in Files : h.size = maxSize /\ h.type \in {"txt", "png"}},
                         g \in {h \in Files : h.size = maxSize /\ h.type \in {"txt", "png"}}}

\* useDropzone's accept and maxSize options.
Accepted(f) == f.type \in {"txt", "pdf", "docx"} /\ f.size <= maxSize

\* Faulty variant: a dropzone configured without maxSize
acceptedFiles_noMaxSize(dropped) ==
    LET ok == SelectSeq(dropped, LAMBDA f : f.type \in {"txt", "pdf", "docx"}) IN
    IF Len(ok) > 1 THEN <<>> ELSE ok

\* What useDropzone hands to onDrop: the files that pass accept and maxSize;
\* with multiple: false a drop of several files is rejected as a whole.
acceptedFiles(dropped) ==
    LET ok == SelectSeq(dropped, Accepted) IN
    IF Len(dropped) > 1 THEN <<>> ELSE ok

\* The name of an uploaded file without its extension.
FileStem == <<"a">>

PCInit ==
    /\ activeTab = "prompt"
    /\ title = <<>>
    /\ prompt = <<>>
    /\ content = <<>>
    /\ genre = "ebook"
    /\ uploadedFile = <<>>
    /\ pcLoading = FALSE
    /\ uploads = 0
    /\ lastDrop = <<>>
    /\ sub = <<>>
    /\ pcRoute = "create"

\* onClick={() => setActiveTab(...)}
setActiveTab ==
    /\ pcRoute = "create"
    /\ \E tab \in {"prompt", "upload"} : tab # activeTab /\ activeTab' = tab
    /\ UNCHANGED <<title, prompt, content, genre, uploadedFile, pcLoading,
                   uploads, lastDrop, sub, pcRoute>>
    /\ UNCHANGED notPC

\* onClick={() => setFormData(prev => ({ ...prev, genre: key }))}
SetGenre ==
    /\ pcRoute = "create"
    /\ \E g \in Genres : g # genre /\ genre' = g
    /\ UNCHANGED <<activeTab, title, prompt, content, uploadedFile, pcLoading,
                   uploads, lastDrop, sub, pcRoute>>
    /\ UNCHANGED notPC

\* handleInputChange for the three text inputs.  The prompt textarea exists
\* in the prompt tab (for an audiobook only without an uploaded file), the
\* content textarea in the upload tab.  The user types only while no
\* submission is being followed.
handleInputChange ==
    /\ pcRoute = "create"
    /\ sub = <<>>
    /\ \E name \in {"title", "prompt", "content"}, value \in Texts :
          /\ name = "prompt" =>
                activeTab = "prompt" /\ (genre # "audiobook" \/ uploadedFile = <<>>)
          /\ name = "content" => activeTab = "upload"
          /\ title' = IF name = "title" THEN value ELSE title
          /\ prompt' = IF name = "prompt" THEN value ELSE prompt
          /\ content' = IF name = "content" THEN value ELSE content
          /\ <<title', prompt', content'>> # <<title, prompt, content>>
    /\ UNCHANGED <<activeTab, genre, uploadedFile, pcLoading, uploads, lastDrop, sub, pcRoute>>
    /\ UNCHANGED notPC

\* The audiobook settings' "Generate from prompt" radio and "Remove" button:
\* setUploadedFile(null)
RemoveFile ==
    /\ pcRoute = "create"
    /\ activeTab = "prompt"
    /\ genre = "audiobook"
    /\ uploadedFile # <<>>
    /\ uploadedFile' = <<>>
    /\ UNCHANGED <<activeTab, title, prompt, content, genre, pcLoading, uploads,
                   lastDrop, sub, pcRoute>>
    /\ UNCHANGED notPC

\* onDrop(acceptedFiles) up to its await.
onDrop(dropped) ==
    LET files == acceptedFiles(dropped) IN
    /\ lastDrop' = dropped
    /\ IF files = <<>>
         THEN UNCHANGED <<pcLoading, uploads>>
         ELSE /\ pcLoading' = TRUE
              /\ uploads' = uploads + 1

\* The user drops or selects files on the dropzone of the upload tab.
Drop ==
    /\ pcRoute = "create"
    /\ activeTab = "upload"
    /\ uploads < MaxUploads
    /\ \E dropped \in Drops : onDrop(dropped)
    /\ UNCHANGED <<activeTab, title, prompt, content, genre, uploadedFile, sub,
                   pcRoute>>
    /\ UNCHANGED notPC

\* onDrop after its await: the upload succeeded with the extracted text, or
\* failed.  State setters of an unmounted component do nothing.
UploadResponse ==
    /\ uploads > 0
    /\ uploads' = uploads - 1
    /\ \E ok \in BOOLEAN, text \in {<<>>, <<"a">>} :
          IF ok /\ pcRoute = "create"
            THEN /\ uploadedFile' = <<[extracted_text |-> text]>>
                 /\ content' = text
                 /\ title' = IF title # <<>> THEN title ELSE FileStem
            ELSE /\ text = <<>>
                 /\ UNCHANGED <<uploadedFile, content, title>>
    /\ pcLoading' = IF pcRoute = "create" THEN FALSE ELSE pcLoading
    /\ UNCHANGED <<activeTab, prompt, genre, lastDrop, sub, pcRoute>>
    /\ UNCHANGED notPC

\* The client-side validation of handleSubmit: TRUE when no check returns.
Validate ==
    /\ Trim(title) # <<>>
    /\ IF genre = "audiobook" /\ activeTab = "prompt"
         THEN ~(uploadedFile = <<>> /\ Trim(prompt) = <<>>)
         ELSE ~(activeTab = "prompt" /\ Trim(prompt) = <<>>)
    /\ ~(activeTab = "upload" /\ Trim(content) = <<>>)

\* What the closure of one handleSubmit call captured.
Captured ==
    [tab |-> activeTab, genre |-> genre, title |-> title, prompt |-> prompt,
     content |-> content, file |-> uploadedFile]

CreateCall == "POST /api/projects"
GenerateCall == "POST /api/ai/generate-book"

\* Faulty variant: a submit that skips the validation
handleSubmit_noValidation ==
    /\ pcRoute = "create"
    /\ ~pcLoading
    /\ sub = <<>>
    /\ pcLoading' = TRUE
    /\ sub' = <<[form |-> Captured, pc |-> "creating",
                 calls |-> <<CreateCall>>, results |-> <<>>, nav |-> "none"]>>
    /\ UNCHANGED <<activeTab, title, prompt, content, genre, uploadedFile,
                   uploads, lastDrop, pcRoute>>
    /\ UNCHANGED notPC

\* handleSubmit up to its first await: the validation, then the create call.
\* The submit button is disabled while loading.
handleSubmit ==
    /\ pcRoute = "create"
    /\ ~pcLoading
    /\ sub = <<>>
    /\ IF Validate
         THEN /\ pcLoading' = TRUE
              /\ sub' = <<[form |-> Captured, pc |-> "creating",
                           calls |-> <<CreateCall>>, results |-> <<>>,
                           nav |-> "none"]>>
         ELSE /\ sub' = <<[form |-> Captured, pc |-> "rejected",
                           calls |-> <<>>, results |-> <<>>, nav |-> "none"]>>
              /\ UNCHANGED pcLoading
    /\ UNCHANGED <<activeTab, title, prompt, content, genre, uploadedFile,
                   uploads, lastDrop, pcRoute>>
    /\ UNCHANGED notPC

\* Faulty variant: a generation triggered for every upload
Generates_anyUpload(form) ==
    form.tab = "prompt" \/ form.tab = "upload"

\* The condition under which handleSubmit triggers the generation.
Generates(form) ==
    form.tab = "prompt" \/ (form.tab = "upload" /\ form.genre = "audiobook")

\* finally { setLoading(false) }
Finally == pcLoading' = IF pcRoute = "create" THEN FALSE ELSE pcLoading

\* handleSubmit after `await axios.post('/api/projects', ...)`.
CreateResponse ==
    /\ sub # <<>>
    /\ sub[1].pc = "creating"
    /\ \E ok \in BOOLEAN :
          LET s == sub[1]
              r == Append(s.results, IF ok THEN "ok" ELSE "fail") IN
          IF ~ok
            THEN /\ sub' = <<[s EXCEPT !.pc = "failed", !.results = r]>>
                 /\ Finally
                 /\ UNCHANGED pcRoute
            ELSE IF Generates(s.form)
            THEN /\ sub' = <<[s EXCEPT !.pc = "generating", !.results = r,
                                       !.calls = Append(s.calls, GenerateCall)]>>
                 /\ UNCHANGED <<pcLoading, pcRoute>>
            ELSE /\ sub' = <<[s EXCEPT !.pc = "done", !.results = r,
                                       !.nav = "project"]>>
                 /\ pcRoute' = "project"
                 /\ Finally
    /\ UNCHANGED <<activeTab, title, prompt, content, genre, uploadedFile,
                   uploads, lastDrop>>
    /\ UNCHANGED notPC

\* handleSubmit after `await axios.post('/api/ai/generate-book', ...)`.
GenerateResponse ==
    /\ sub # <<>>
    /\ sub[1].pc = "generating"
    /\ \E ok \in BOOLEAN :
          LET s == sub[1]
              r == Append(s.results, IF ok THEN "ok" ELSE "fail") IN
          IF ok
            THEN /\ sub' = <<[s EXCEPT !.pc = "done", !.results = r,
                                       !.nav = "progress"]>>
                 /\ pcRoute' = "progress"
            ELSE /\ sub' = <<[s EXCEPT !.pc = "failed", !.results = r]>>
                 /\ UNCHANGED pcRoute
    /\ Finally
    /\ UNCHANGED <<activeTab, title, prompt, content, genre, uploadedFile,
                   uploads, lastDrop>>
    /\ UNCHANGED notPC

\* The toast of a rejected or failed submission expires; the submission is
\* no longer followed.
ToastExpire ==
    /\ sub # <<>>
    /\ sub[1].pc \in {"rejected", "failed"}
    /\ sub' = <<>>
    /\ UNCHANGED <<activeTab, title, prompt, content, genre, uploadedFile,
                   pcLoading, uploads, lastDrop, pcRoute>>
    /\ UNCHANGED notPC

\* The Cancel button: navigate('/dashboard').  Calls in flight go on.
Cancel ==
    /\ pcRoute = "create"
    /\ pcRoute' = "dashboard"
    /\ UNCHANGED <<activeTab, title, prompt, content, genre, uploadedFile,
                   pcLoading, uploads, lastDrop, sub>>
    /\ UNCHANGED notPC

PCNext ==
    \/ setActiveTab
    \/ SetGenre
    \/ handleInputChange
    \/ RemoveFile
    \/ Drop
    \/ UploadResponse
    \/ handleSubmit
    \/ CreateResponse
    \/ GenerateResponse
    \/ ToastExpire
    \/ Cancel

\* ------------------------------------- Dashboard.js and ProjectEditor
\* The Dashboard (/dashboard) and the Project Editor (/project/:id) with the
\* projects of the server.  A request in flight is a record
\*   [kind, live, state, arg, res]
\* live:  the component instance that issued it is still mounted (a state
\*        setter called for an unmounted instance does nothing);
\* state: "sent" until the server has served it, then "ok" or "fail"; res is
\*        the body of the response.
\* The Dashboard's requests are served in one step and handled in a later
\* one, since the list is a snapshot and a DELETE acts on the server.  The
\* editor's handlers do not depend on when the server made up its answer, so
\* for them the answer is chosen in the step that handles it.
\* A request whose completion can no longer have any effect (its instance is
\* unmounted and its handler would only call state setters) is dropped when
\* the instance unmounts.

Ids == {1, 2}

IdOrder == <<1, 2>>

Urls == {"u2"}

\* The bodies GET /api/projects/detail/{id} answers with (status apart); a
\* field is <<>> when absent, else <<value>>.
DocEmpty ==
    [title |-> <<>>, author |-> <<>>, description |-> <<>>, content |-> <<>>,
     generated_content |-> <<>>, cover_image_url |-> <<>>, genre |-> <<>>]

DocFull ==
    [title |-> << <<"a">> >>, author |-> << <<"a">> >>,
     description |-> << <<"a">> >>, content |-> << <<"a">> >>,
     generated_content |-> << <<" ">> >>, cover_image_url |-> <<"u1">>,
     genre |-> <<"kids_story">>]

\* The record the server holds for each project: the first has been written
\* and generated, the second has just been created.
Docs == [id \in Ids |-> IF id = 1 THEN DocFull ELSE DocEmpty]

\* v || '' for a text field
OrEmpty(v) == IF v # <<>> /\ v[1] # <<>> THEN v[1] ELSE <<>>

\* a || b for two text fields
OrElse(a, b) == IF a # <<>> /\ a[1] # <<>> THEN a ELSE b

Req(kind, arg) ==
    [kind |-> kind, live |-> TRUE, state |-> "sent", arg |-> arg, res |-> <<>>]

\* The requests of an unmounting instance: those that can still act.
StillActs(r) ==
    \/ r.kind = "delete" /\ r.state = "sent"
    \/ r.kind \in {"detail", "audio"}

Kinds == <<"list", "delete", "detail", "save", "cover", "audio">>

\* The requests in flight are handled in any order, so the order they are
\* kept in means nothing: they are kept by kind, those of unmounted
\* instances first, in the order of issue within a kind.
RECURSIVE ByKind(_, _, _)
ByKind(reqs, live, k) ==
    IF k > Len(Kinds) THEN <<>>
    ELSE SelectSeq(reqs, LAMBDA r : r.kind = Kinds[k] /\ r.live = live)
         \o ByKind(reqs, live, k + 1)

Kept(reqs) == ByKind(reqs, FALSE, 1) \o ByKind(reqs, TRUE, 1)

Sent(reqs, r) == Kept(Append(reqs, r))

Unmounted(reqs) ==
    LET dead == [i \in 1..Len(reqs) |-> [reqs[i] EXCEPT !.live = FALSE]]
    IN  Kept(SelectSeq(dead, StillActs))

\* The number of requests in flight
InFlight == Len(dbReqs) + Len(peReqs)

HasLive(reqs, kind) ==
    \E i \in 1..Len(reqs) : reqs[i].kind = kind /\ reqs[i].live

\* GET /api/projects on the server: the projects that exist, with status
ServerList ==
    SelectSeq([i \in 1..Len(IdOrder) |->
                  [id |-> IdOrder[i], status |-> srvStatus[IdOrder[i]]]],
              LAMBDA p : p.status # "gone")

ListIds(list) == {list[i].id : i \in 1..Len(list)}

Without(list, projectId) == SelectSeq(list, LAMBDA p : p.id # projectId)

CountStatus(list, st) == Len(SelectSeq(list, LAMBDA p : p.status = st))

\* Dashboard's initial state and its mount effect (the user is signed in,
\* the route guard of App.js sees to that): fetchProjects() is called.
DashboardMount(dbBase) ==
    /\ projects' = <<>>
    /\ dbLoading' = TRUE
    /\ stats' = [total |-> 0, completed |-> 0, processing |-> 0]
    /\ lastList' = <<>>
    /\ dbReqs' = Sent(dbBase, Req("list", <<>>))

DashboardUnmount(dbBase) ==
    /\ projects' = <<>>
    /\ dbLoading' = TRUE
    /\ stats' = [total |-> 0, completed |-> 0, processing |-> 0]
    /\ lastList' = <<>>
    /\ dbReqs' = Unmounted(dbBase)

\* ProjectEditor's initial state (useState) and its mount effect:
\* if (projectId) fetchProject()
EditorInitial ==
    /\ project' = <<>>
    /\ peLoading' = TRUE
    /\ saving' = FALSE
    /\ coverGenerating' = FALSE
    /\ audioGenerating' = FALSE
    /\ peTitle' = <<>>
    /\ peAuthor' = <<>>
    /\ peDescription' = <<>>
    /\ peContent' = <<>>
    /\ lastDetail' = <<>>
    /\ together' = FALSE

EditorMount(id, peBase) ==
    /\ EditorInitial
    /\ peId' = id
    /\ peReqs' = Sent(peBase, Req("detail", id))

EditorUnmount(peBase) ==
    /\ EditorInitial
    /\ peId' = 0
    /\ peReqs' = Unmounted(peBase)

dbState == <<projects, dbLoading, stats, lastList>>

peState == <<peId, project, peLoading, saving, coverGenerating,
             audioGenerating, peTitle, peAuthor, peDescription, peContent,
             lastDetail, together>>

\* navigate('/dashboard') with the requests left in flight
NavigateDashboard(dbBase, peBase) ==
    /\ wsRoute' = "dashboard"
    /\ IF wsRoute = "dashboard"
         THEN /\ dbReqs' = dbBase
              /\ peReqs' = peBase
              /\ UNCHANGED <<dbState, peState>>
         ELSE /\ DashboardMount(dbBase)
              /\ EditorUnmount(peBase)

\* navigate(`/progress/${projectId}`) with the requests left in flight
NavigateProgress(dbBase, peBase) ==
    /\ wsRoute' = "progress"
    /\ DashboardUnmount(dbBase)
    /\ EditorUnmount(peBase)

WSInit ==
    /\ srvStatus = [id \in Ids |-> IF id = 1 THEN "processing" ELSE "draft"]
    /\ wsRoute = "dashboard"
    /\ projects = <<>>
    /\ dbLoading = TRUE
    /\ stats = [total |-> 0, completed |-> 0, processing |-> 0]
    /\ lastList = <<>>
    /\ dbReqs = <<Req("list", <<>>)>>
    /\ peId = 0
    /\ project = <<>>
    /\ peLoading = TRUE
    /\ saving = FALSE
    /\ coverGenerating = FALSE
    /\ audioGenerating = FALSE
    /\ peTitle = <<>>
    /\ peAuthor = <<>>
    /\ peDescription = <<>>
    /\ peContent = <<>>
    /\ lastDetail = <<>>
    /\ together = FALSE
    /\ peReqs = <<>>
    /\ edits = 0

\* ---- the server ----

\* The generation job of a project moves on.
ServerStatus ==
    /\ \E id \in Ids :
          /\ srvStatus[id] = "processing"
          /\ srvStatus' = [srvStatus EXCEPT ![id] = "completed"]
    /\ UNCHANGED <<wsRoute, dbState, dbReqs, peState, peReqs, edits>>
    /\ UNCHANGED notWS

\* The server serves a request of the Dashboard.
ServeDashboard ==
    /\ \E i \in 1..Len(dbReqs) :
          LET r == dbReqs[i] IN
          /\ r.state = "sent"
          /\ \/ /\ r.kind = "list"
                /\ dbReqs' = [dbReqs EXCEPT ![i].state = "ok", ![i].res = ServerList]
                /\ UNCHANGED srvStatus
             \/ /\ r.kind = "delete"
                /\ srvStatus[r.arg.id] # "gone"
                /\ dbReqs' = [dbReqs EXCEPT ![i].state = "ok"]
                /\ srvStatus' = [srvStatus EXCEPT ![r.arg.id] = "gone"]
             \/ /\ dbReqs' = [dbReqs EXCEPT ![i].state = "fail"]
                /\ UNCHANGED srvStatus
    /\ UNCHANGED <<wsRoute, dbState, peState, peReqs, edits>>
    /\ UNCHANGED notWS

\* ---- Dashboard ----

\* fetchProjects, from the response on
fetchProjectsResume(i) ==
    LET r == dbReqs[i] IN
    /\ r.kind = "list" /\ r.state # "sent"
    /\ dbReqs' = RemoveAt(dbReqs, i)
    /\ IF r.live
         THEN /\ IF r.state = "ok"
                   THEN /\ projects' = r.res
                        /\ stats' = [total |-> Len(r.res),
                                     completed |-> CountStatus(r.res, "completed"),
                                     processing |-> CountStatus(r.res, "processing")]
                        /\ lastList' = r.res
                   ELSE UNCHANGED <<projects, stats, lastList>>
              /\ dbLoading' = FALSE
         ELSE UNCHANGED dbState
    /\ UNCHANGED <<srvStatus, wsRoute, peState, peReqs, edits>>
    /\ UNCHANGED notWS

\* handleDeleteProject(projectId) up to the DELETE request; the handler's
\* closure holds the projects of the render the button belongs to.
handleDeleteProject(projectId) ==
    /\ wsRoute = "dashboard" /\ ~dbLoading
    /\ projectId \in ListIds(projects)
    /\ InFlight < MaxReqs
    /\ \/ dbReqs' = Sent(dbReqs,
                         Req("delete", [id |-> projectId, projects |-> projects]))
       \/ UNCHANGED dbReqs   \* window.confirm answered no
    /\ UNCHANGED <<srvStatus, wsRoute, dbState, peState, peReqs, edits>>
    /\ UNCHANGED notWS

\* Faulty variant: the deleted project is kept and marked, not removed
handleDeleteProjectResume_marks(i) ==
    LET r == dbReqs[i] IN
    /\ r.kind = "delete" /\ r.state # "sent"
    /\ dbReqs' = RemoveAt(dbReqs, i)
    /\ IF r.live /\ r.state = "ok"
         THEN projects' = [k \in 1..Len(r.arg.projects) |->
                             IF r.arg.projects[k].id = r.arg.id
                               THEN [r.arg.projects[k] EXCEPT !.status = "deleted"]
                               ELSE r.arg.projects[k]]
         ELSE UNCHANGED projects
    /\ UNCHANGED <<dbLoading, stats, lastList>>
    /\ UNCHANGED <<srvStatus, wsRoute, peState, peReqs, edits>>
    /\ UNCHANGED notWS

\* handleDeleteProject, from the response on
handleDeleteProjectResume(i) ==
    LET r == dbReqs[i] IN
    /\ r.kind = "delete" /\ r.state # "sent"
    /\ dbReqs' = RemoveAt(dbReqs, i)
    /\ IF r.live /\ r.state = "ok"
         THEN projects' = Without(r.arg.projects, r.arg.id)
         ELSE UNCHANGED projects
    /\ UNCHANGED <<dbLoading, stats, lastList>>
    /\ UNCHANGED <<srvStatus, wsRoute, peState, peReqs, edits>>
    /\ UNCHANGED notWS

\* A response reaches the Dashboard's code.
ReceiveDashboard ==
    \E i \in 1..Len(dbReqs) :
        \/ fetchProjectsResume(i)
        \/ handleDeleteProjectResume(i)

\* The project card's link to /project/{id}
OpenProject ==
    /\ wsRoute = "dashboard" /\ ~dbLoading
    /\ InFlight < MaxReqs
    /\ \E id \in ListIds(projects) : EditorMount(id, peReqs)
    /\ DashboardUnmount(dbReqs)
    /\ wsRoute' = "project"
    /\ UNCHANGED <<srvStatus, edits>>
    /\ UNCHANGED notWS

\* ---- Project Editor ----

\* The answers the server can give to a request of the editor.
Answers(q) ==
    {[q EXCEPT !.state = "fail"]} \cup
    CASE q.kind = "detail" ->
           IF srvStatus[q.arg] = "gone" THEN {}
           ELSE {[q EXCEPT !.state = "ok",
                           !.res = [id |-> q.arg, status |-> srvStatus[q.arg],
                                    doc |-> Docs[q.arg]]]}
      [] q.kind = "cover" ->
           {[q EXCEPT !.state = "ok",
                      !.res = [success |-> TRUE, image_url |-> url]] : url \in Urls}
           \cup {[q EXCEPT !.state = "ok",
                           !.res = [success |-> FALSE, image_url |-> ""]]}
      [] OTHER -> {[q EXCEPT !.state = "ok"]}

\* fetchProject, from the response r to request i on
fetchProjectResume(i, r) ==
    /\ r.kind = "detail"
    /\ IF r.state = "ok"
         THEN /\ peReqs' = RemoveAt(peReqs, i)
              /\ IF r.live
                   THEN /\ project' = <<[id |-> r.res.id,
                                         status |-> r.res.status,
                                         title |-> r.res.doc.title,
                                         author |-> r.res.doc.author,
                                         description |-> r.res.doc.description,
                                         content |-> r.res.doc.content,
                                         generated_content |-> r.res.doc.generated_content,
                                         cover_image_url |-> r.res.doc.cover_image_url,
                                         genre |-> r.res.doc.genre]>>
                        /\ peContent' = OrEmpty(OrElse(r.res.doc.generated_content,
                                                       r.res.doc.content))
                        /\ peTitle' = OrEmpty(r.res.doc.title)
                        /\ peAuthor' = OrEmpty(r.res.doc.author)
                        /\ peDescription' = OrEmpty(r.res.doc.description)
                        /\ lastDetail' = <<r.res.status>>
                        /\ peLoading' = FALSE
                        /\ UNCHANGED <<peId, saving, coverGenerating,
                                       audioGenerating, together>>
                   ELSE UNCHANGED peState
              /\ UNCHANGED <<wsRoute, dbState, dbReqs>>
         ELSE \* catch: navigate('/dashboard'); finally: setLoading(false)
              /\ NavigateDashboard(dbReqs, RemoveAt(peReqs, i))
    /\ UNCHANGED <<srvStatus, edits>>
    /\ UNCHANGED notWS

\* What the user makes of a field of the editor: text typed into a blank
\* field, a field with text blanked.
Typed(t) == IF Trim(t) = <<>> THEN <<"a">> ELSE <<" ">>

\* setTitle / setAuthor / setDescription / setContent from the inputs
EditField ==
    /\ wsRoute = "project" /\ project # <<>>
    /\ edits < MaxEdits
    /\ edits' = edits + 1
    /\ \/ peTitle' = Typed(peTitle)
          /\ UNCHANGED <<peAuthor, peDescription, peContent>>
       \/ peAuthor' = Typed(peAuthor)
          /\ UNCHANGED <<peTitle, peDescription, peContent>>
       \/ peDescription' = Typed(peDescription)
          /\ UNCHANGED <<peTitle, peAuthor, peContent>>
       \/ peContent' = Typed(peContent)
          /\ UNCHANGED <<peTitle, peAuthor, peDescription>>
    /\ UNCHANGED <<peId, project, peLoading, saving, coverGenerating,
                   audioGenerating, lastDetail, together>>
    /\ UNCHANGED <<srvStatus, wsRoute, dbState, dbReqs, peReqs>>
    /\ UNCHANGED notWS

\* handleSave up to the PUT request
handleSave ==
    /\ wsRoute = "project" /\ project # <<>>
    /\ ~saving
    /\ InFlight < MaxReqs
    /\ saving' = TRUE
    /\ peReqs' = Sent(peReqs,
                        Req("save", [title |-> peTitle, author |-> peAuthor,
                                     description |-> peDescription,
                                     content |-> peContent,
                                     project |-> project]))
    /\ together' = (together \/ HasLive(peReqs, "cover"))
    /\ UNCHANGED <<peId, project, peLoading, coverGenerating, audioGenerating,
                   peTitle, peAuthor, peDescription, peContent, lastDetail>>
    /\ UNCHANGED <<srvStatus, wsRoute, dbState, dbReqs, edits>>
    /\ UNCHANGED notWS

\* Faulty variant: the saved fields merged into the project of the closure
handleSaveResume_staleProject(i, r) ==
    /\ r.kind = "save"
    /\ peReqs' = RemoveAt(peReqs, i)
    /\ IF r.live
         THEN /\ IF r.state = "ok"
                   THEN project' = <<[r.arg.project[1] EXCEPT
                                           !.title = <<r.arg.title>>,
                                           !.author = <<r.arg.author>>,
                                           !.description = <<r.arg.description>>,
                                           !.content = <<r.arg.content>>]>>
                   ELSE UNCHANGED project
              /\ saving' = FALSE
         ELSE UNCHANGED <<project, saving>>
    /\ UNCHANGED <<peId, peLoading, coverGenerating, audioGenerating, peTitle,
                   peAuthor, peDescription, peContent, lastDetail, together>>
    /\ UNCHANGED <<srvStatus, wsRoute, dbState, dbReqs, edits>>
    /\ UNCHANGED notWS

\* handleSave, from the response on:
\* setProject(prev => ({...prev, title, author, description, content}))
handleSaveResume(i, r) ==
    /\ r.kind = "save"
    /\ peReqs' = RemoveAt(peReqs, i)
    /\ IF r.live
         THEN /\ IF r.state = "ok"
                   THEN project' = <<[project[1] EXCEPT
                                           !.title = <<r.arg.title>>,
                                           !.author = <<r.arg.author>>,
                                           !.description = <<r.arg.description>>,
                                           !.content = <<r.arg.content>>]>>
                   ELSE UNCHANGED project
              /\ saving' = FALSE
         ELSE UNCHANGED <<project, saving>>
    /\ UNCHANGED <<peId, peLoading, coverGenerating, audioGenerating, peTitle,
                   peAuthor, peDescription, peContent, lastDetail, together>>
    /\ UNCHANGED <<srvStatus, wsRoute, dbState, dbReqs, edits>>
    /\ UNCHANGED notWS

\* handleGenerateCover up to the POST request
handleGenerateCover ==
    /\ wsRoute = "project" /\ project # <<>>
    /\ ~coverGenerating
    /\ IF Trim(peTitle) = <<>>
         THEN UNCHANGED <<coverGenerating, peReqs, together>>
         ELSE /\ InFlight < MaxReqs
              /\ coverGenerating' = TRUE
              /\ peReqs' = Sent(peReqs,
                                  Req("cover",
                                      [title |-> peTitle,
                                       genre |-> IF project[1].genre # <<>>
                                                   THEN project[1].genre[1]
                                                   ELSE "ebook",
                                       description |-> peDescription]))
              /\ together' = (together \/ HasLive(peReqs, "save"))
    /\ UNCHANGED <<peId, project, peLoading, saving, audioGenerating, peTitle,
                   peAuthor, peDescription, peContent, lastDetail>>
    /\ UNCHANGED <<srvStatus, wsRoute, dbState, dbReqs, edits>>
    /\ UNCHANGED notWS

\* Faulty variant: the image URL taken whatever the response reports
handleGenerateCoverResume_anyResponse(i, r) ==
    /\ r.kind = "cover"
    /\ peReqs' = RemoveAt(peReqs, i)
    /\ IF r.live
         THEN /\ IF r.state = "ok"
                   THEN project' = <<[project[1] EXCEPT
                                           !.cover_image_url = <<r.res.image_url>>]>>
                   ELSE UNCHANGED project
              /\ coverGenerating' = FALSE
         ELSE UNCHANGED <<project, coverGenerating>>
    /\ UNCHANGED <<peId, peLoading, saving, audioGenerating, peTitle, peAuthor,
                   peDescription, peContent, lastDetail, together>>
    /\ UNCHANGED <<srvStatus, wsRoute, dbState, dbReqs, edits>>
    /\ UNCHANGED notWS

\* handleGenerateCover, from the response on:
\* setProject(prev => ({...prev, cover_image_url: response.data.image_url}))
handleGenerateCoverResume(i, r) ==
    /\ r.kind = "cover"
    /\ peReqs' = RemoveAt(peReqs, i)
    /\ IF r.live
         THEN /\ IF r.state = "ok" /\ r.res.success
                   THEN project' = <<[project[1] EXCEPT
                                           !.cover_image_url = <<r.res.image_url>>]>>
                   ELSE UNCHANGED project
              /\ coverGenerating' = FALSE
         ELSE UNCHANGED <<project, coverGenerating>>
    /\ UNCHANGED <<peId, peLoading, saving, audioGenerating, peTitle, peAuthor,
                   peDescription, peContent, lastDetail, together>>
    /\ UNCHANGED <<srvStatus, wsRoute, dbState, dbReqs, edits>>
    /\ UNCHANGED notWS

\* handleGenerateAudio up to the POST request
handleGenerateAudio ==
    /\ wsRoute = "project" /\ project # <<>>
    /\ ~audioGenerating
    /\ IF Trim(peContent) = <<>>
         THEN UNCHANGED <<audioGenerating, peReqs>>
         ELSE /\ InFlight < MaxReqs
              /\ audioGenerating' = TRUE
              /\ peReqs' = Sent(peReqs, Req("audio", peId))
    /\ UNCHANGED <<peId, project, peLoading, saving, coverGenerating, peTitle,
                   peAuthor, peDescription, peContent, lastDetail, together>>
    /\ UNCHANGED <<srvStatus, wsRoute, dbState, dbReqs, edits>>
    /\ UNCHANGED notWS

\* handleGenerateAudio, from the response on: a success navigates to the
\* progress page, which unmounts the editor; finally: setAudioGenerating(false)
handleGenerateAudioResume(i, r) ==
    /\ r.kind = "audio"
    /\ IF r.state = "ok"
         THEN /\ NavigateProgress(dbReqs, RemoveAt(peReqs, i))
         ELSE /\ peReqs' = RemoveAt(peReqs, i)
              /\ audioGenerating' = IF r.live THEN FALSE ELSE audioGenerating
              /\ UNCHANGED <<peId, project, peLoading, saving, coverGenerating,
                             peTitle, peAuthor, peDescription, peContent,
                             lastDetail, together>>
              /\ UNCHANGED <<wsRoute, dbState, dbReqs>>
    /\ UNCHANGED <<srvStatus, edits>>
    /\ UNCHANGED notWS

\* A response reaches the Project Editor's code.
ReceiveEditor ==
    \E i \in 1..Len(peReqs) : \E r \in Answers(peReqs[i]) :
        \/ fetchProjectResume(i, r)
        \/ handleSaveResume(i, r)
        \/ handleGenerateCoverResume(i, r)
        \/ handleGenerateAudioResume(i, r)

\* The editor's Back button: navigate('/dashboard')
Back ==
    /\ wsRoute = "project" /\ ~peLoading
    /\ NavigateDashboard(dbReqs, peReqs)
    /\ UNCHANGED <<srvStatus, edits>>
    /\ UNCHANGED notWS

\* From the progress page the header's link leads back to the Dashboard.
LeaveProgress ==
    /\ wsRoute = "progress"
    /\ NavigateDashboard(dbReqs, peReqs)
    /\ UNCHANGED <<srvStatus, edits>>
    /\ UNCHANGED notWS

WSNext ==
    \/ ServerStatus
    \/ ServeDashboard
    \/ ReceiveDashboard
    \/ \E projectId \in Ids : handleDeleteProject(projectId)
    \/ OpenProject
    \/ EditField
    \/ handleSave
    \/ handleGenerateCover
    \/ handleGenerateAudio
    \/ ReceiveEditor
    \/ Back
    \/ LeaveProgress

\* ------------------------------- ProjectCreator, handleSubmit's catch
\* JSON values: [t |-> type, s |-> the text of a string, n |-> the number,
\* items |-> the items of an array, pairs |-> the [k, val] pairs of an
\* object, in order]; the fields that do not apply are "", 0 and <<>>.
JValue(t, s, n, items, pairs) ==
    [t |-> t, s |-> s, n |-> n, items |-> items, pairs |-> pairs]

JNull == JValue("null", "", 0, <<>>, <<>>)

JUndefined == JValue("undefined", "", 0, <<>>, <<>>)

Str(x) == JValue("str", x, 0, <<>>, <<>>)

Num(n) == JValue("num", "", n, <<>>, <<>>)

Arr(items) == JValue("arr", "", 0, items, <<>>)

Obj(pairs) ==
    JValue("obj", "", 0, <<>>,
           [k \in 1..Len(pairs) |-> [k |-> pairs[k][1], val |-> pairs[k][2]]])

\* Array.prototype.join on a sequence of strings
RECURSIVE Join(_, _)
Join(strs, sep) ==
    IF strs = <<>> THEN ""
    ELSE IF Len(strs) = 1 THEN strs[1]
    ELSE strs[1] \o sep \o Join(Tail(strs), sep)

Quote(x) == "\"" \o x \o "\""

\* JSON.stringify(value)
RECURSIVE Stringify(_)
Stringify(j) ==
    CASE j.t = "null" -> "null"
      [] j.t = "num" -> ToString(j.n)
      [] j.t = "str" -> Quote(j.s)
      [] j.t = "arr" ->
           "[" \o Join([k \in 1..Len(j.items) |-> Stringify(j.items[k])], ",") \o "]"
      [] j.t = "obj" ->
           "{" \o Join([k \in 1..Len(j.pairs) |->
                          Quote(j.pairs[k].k) \o ":" \o Stringify(j.pairs[k].val)],
                       ",")
               \o "}"

\* value.key for a value that is neither null nor undefined
Prop(j, key) ==
    IF \E k \in 1..Len(j.pairs) : j.pairs[k].k = key
      THEN j.pairs[CHOOSE k \in 1..Len(j.pairs) : j.pairs[k].k = key].val
      ELSE JUndefined

\* the truthiness of a value
TruthyJ(j) ==
    ~ \/ j.t \in {"null", "undefined"}
      \/ j.t = "str" /\ j.s = ""
      \/ j.t = "num" /\ j.n = 0

\* String(value) for the values a template or a join meets
ToText(j) ==
    CASE j.t = "str" -> j.s
      [] j.t = "num" -> ToString(j.n)
      [] j.t \in {"null", "undefined"} -> ""
      [] OTHER -> "[object Object]"

\* The callback of detail.map throws a TypeError: a property of null is
\* read, or loc has no join method.
ItemThrows(err) ==
    \/ err.t = "null"
    \/ /\ err.t # "str"
       /\ TruthyJ(Prop(err, "msg"))
       /\ TruthyJ(Prop(err, "loc"))
       /\ Prop(err, "loc").t # "arr"

\* The callback of detail.map
ItemText(err) ==
    IF err.t = "str" THEN err.s
    ELSE IF TruthyJ(Prop(err, "msg"))
      THEN (IF TruthyJ(Prop(err, "loc"))
              THEN Join([k \in 1..Len(Prop(err, "loc").items) |->
                            ToText(Prop(err, "loc").items[k])], ".") \o ": "
              ELSE "")
           \o ToText(Prop(err, "msg"))
    ELSE Stringify(err)

DefaultMessage == "Failed to create project"

\* The catch block up to toast.error(message): the message, or the fact
\* that the block threw before reaching it.
ErrorMessage(detail) ==
    IF detail = <<>> \/ ~TruthyJ(detail[1])
      THEN [thrown |-> FALSE, message |-> DefaultMessage]
    ELSE LET d == detail[1] IN
      CASE d.t = "str" -> [thrown |-> FALSE, message |-> d.s]
        [] d.t = "arr" ->
             IF \E k \in 1..Len(d.items) : ItemThrows(d.items[k])
               THEN [thrown |-> TRUE, message |-> ""]
               ELSE [thrown |-> FALSE,
                     message |-> Join([k \in 1..Len(d.items) |->
                                          ItemText(d.items[k])], ", ")]
        [] d.t = "obj" -> [thrown |-> FALSE, message |-> Stringify(d)]
        [] OTHER -> [thrown |-> FALSE, message |-> DefaultMessage]

Loc == Arr(<<Str("body"), Str("title")>>)

FieldError == Obj(<< <<"loc", Loc>>, <<"msg", Str("field required")>> >>)

\* The items of an array detail
Items ==
    {Str("bad input"),
     FieldError,
     Obj(<< <<"msg", Str("field required")>> >>),
     Obj(<< <<"loc", Arr(<<>>)>>, <<"msg", Str("field required")>> >>),
     Obj(<< <<"loc", Loc>>, <<"msg", Str("")>> >>),
     Obj(<< <<"type", Str("missing")>> >>),
     Num(5),
     JNull}

RECURSIVE SeqsUpTo(_, _)
SeqsUpTo(S, n) ==
    IF n = 0 THEN {<<>>}
    ELSE LET shorter == SeqsUpTo(S, n - 1)
         IN  shorter \cup {Append(q, x) : q \in shorter, x \in S}

\* The detail payloads of a failed create call
Details ==
    {<<>>, <<JNull>>, <<Str("")>>, <<Str("Quota exceeded")>>,
     <<Obj(<< <<"error", Str("quota")>>, <<"limit", Num(5)>> >>)>>}
    \cup {<<Arr(items)>> : items \in SeqsUpTo(Items, MaxItems)}

\* The create call has failed with some detail; the catch block has not run.
ErrInit ==
    /\ errDetail \in Details
    /\ errCaught = "no"
    /\ errToast = <<>>

\* catch (error) { ... toast.error(message) }
handleSubmitCatch ==
    /\ errCaught = "no"
    /\ LET m == ErrorMessage(errDetail) IN
         IF m.thrown
           THEN errCaught' = "thrown" /\ errToast' = errToast
           ELSE errCaught' = "shown" /\ errToast' = <<m.message>>
    /\ UNCHANGED errDetail
    /\ UNCHANGED notErr

ErrNext == handleSubmitCatch

\* --------------------------------- App.js: LandingPage, DynamicPricing
\* The plans GET /api/subscription-plans may list.
PlanIds == {"monthly", "lifetime"}

PlanLists == {<<>>, <<"monthly", "lifetime">>}

PlansFailedMsg == "Failed to load pricing plans"

\* App.js imports Toaster from 'sonner' and nothing else: toast is not bound
\* in the module, and evaluating toast.error(...) throws a ReferenceError.
toastImported == FALSE

\* isAuthenticated={!!user}, the prop LandingPage hands to DynamicPricing
isAuthenticated == user # <<>>

\* The LandingPage instance on screen is the one the last render asked for.
\* React commits a render before it handles the next event.
Committed == lpMounted <=> (Rendered = View("LandingPage"))

LPInit ==
    /\ lpMounted = FALSE
    /\ subscriptionPlans = <<>>
    /\ dpLoading = TRUE
    /\ dpLive = 0
    /\ dpDead = 0
    /\ dpToast = <<>>
    /\ dpUncaught = FALSE
    /\ dpFailed = FALSE
    /\ subPosts = 0

\* The route "/" renders <LandingPage>: DynamicPricing mounts with its
\* initial state and its effect calls fetchSubscriptionPlans().
LandingMount ==
    /\ ~lpMounted /\ Rendered = View("LandingPage")
    /\ dpDead < MaxPending
    /\ lpMounted' = TRUE
    /\ subscriptionPlans' = <<>>
    /\ dpLoading' = TRUE
    /\ dpLive' = 1
    /\ dpFailed' = FALSE
    /\ UNCHANGED <<dpDead, dpToast, dpUncaught, subPosts>>
    /\ UNCHANGED sessVars
    /\ UNCHANGED notLP

\* The route no longer renders <LandingPage>: the instance is unmounted, its
\* state is dropped and its request stays in flight.
LandingUnmount ==
    /\ lpMounted /\ Rendered # View("LandingPage")
    /\ lpMounted' = FALSE
    /\ subscriptionPlans' = <<>>
    /\ dpLoading' = TRUE
    /\ dpLive' = 0
    /\ dpDead' = dpDead + dpLive
    /\ dpFailed' = FALSE
    /\ UNCHANGED <<dpToast, dpUncaught, subPosts>>
    /\ UNCHANGED sessVars
    /\ UNCHANGED notLP

\* fetchSubscriptionPlans after its await, for the request of the mounted
\* instance (live) or of an unmounted one.  State setters of an unmounted
\* component do nothing.
fetchSubscriptionPlansResume(live, ok, data) ==
    /\ IF live THEN dpLive > 0 /\ dpLive' = dpLive - 1 /\ UNCHANGED dpDead
               ELSE dpDead > 0 /\ dpDead' = dpDead - 1 /\ UNCHANGED dpLive
    /\ IF ok
         THEN /\ subscriptionPlans' = IF live THEN data ELSE subscriptionPlans
              /\ UNCHANGED <<dpToast, dpUncaught, dpFailed>>
         ELSE \* catch: console.error(...); toast.error('Failed to load pricing plans')
              /\ data = <<>>
              /\ IF toastImported
                   THEN dpToast' = <<PlansFailedMsg>> /\ UNCHANGED dpUncaught
                   ELSE dpUncaught' = TRUE /\ UNCHANGED dpToast
              /\ dpFailed' = (dpFailed \/ live)
              /\ UNCHANGED subscriptionPlans
    \* finally: setLoading(false)
    /\ dpLoading' = IF live THEN FALSE ELSE dpLoading

ReceivePlans ==
    /\ Committed
    /\ \E live \in BOOLEAN, ok \in BOOLEAN, data \in PlanLists :
          fetchSubscriptionPlansResume(live, ok, data)
    /\ UNCHANGED <<lpMounted, subPosts>>
    /\ UNCHANGED sessVars
    /\ UNCHANGED notLP

\* handlePlanSelection(plan), from a plan card of the rendered list, up to
\* its await.
handlePlanSelection(plan) ==
    /\ Committed /\ lpMounted
    /\ ~dpLoading
    /\ \E k \in 1..Len(subscriptionPlans) : subscriptionPlans[k] = plan
    /\ IF ~isAuthenticated
         THEN \* onShowAuth(); return
              /\ showAuth' = TRUE
              /\ UNCHANGED subPosts
         ELSE \* axios.post('/api/payments/create-subscription', ...)
              /\ subPosts < MaxPending
              /\ subPosts' = subPosts + 1
              /\ UNCHANGED showAuth
    /\ lastOp' = "selectPlan"
    /\ UNCHANGED <<user, localStorage, authHeader, appLoading, loginArg,
                   loggedOut, reloaded, lastReqAuth, path, pending, lastStatus>>
    /\ UNCHANGED <<lpMounted, subscriptionPlans, dpLoading, dpLive, dpDead,
                   dpToast, dpUncaught, dpFailed>>
    /\ UNCHANGED notLP

\* An event of the application shell that decides what is rendered (the
\* start-up effect, login and logout, the sign-in modal, a change of
\* location), handled once the render is committed.
ShellStep ==
    /\ Committed
    /\ \/ AppUseEffect
       \/ Login
       \/ handleLogout
       \/ ToggleAuth
       \/ GoTo
       \/ Redirect

\* The page is reloaded while the landing page may be on screen: the shell
\* starts over as in Reload, the instance and the requests in flight are gone
\* with the page.
LandingReload ==
    /\ Committed
    /\ user' = <<>>
    /\ authHeader' = <<>>
    /\ appLoading' = TRUE
    /\ showAuth' = FALSE
    /\ reloaded' = TRUE
    /\ lastReqAuth' = <<>>
    /\ pending' = 0
    /\ lastOp' = "reload"
    /\ UNCHANGED <<localStorage, loginArg, loggedOut, path, lastStatus>>
    /\ lpMounted' = FALSE
    /\ subscriptionPlans' = <<>>
    /\ dpLoading' = TRUE
    /\ dpLive' = 0
    /\ dpDead' = 0
    /\ dpFailed' = FALSE
    /\ dpToast' = <<>>
    /\ dpUncaught' = FALSE
    /\ UNCHANGED subPosts
    /\ UNCHANGED notLP

LPNext ==
    \/ ShellStep
    \/ LandingReload
    \/ LandingMount
    \/ LandingUnmount
    \/ ReceivePlans
    \/ \E plan \in PlanIds : handlePlanSelection(plan)


\* ------------------- useStripe (hook), Pricing, PaymentSuccess
\* Two of the five plans of Pricing's plans array.
PricingPlans == {"monthly", "entry-lifetime"}

\* window.location.origin and the two URLs handleSelectPlan builds from it
Origin == "https://app"
SuccessUrl == Origin \o "/payment/success"
CancelUrl == Origin \o "/pricing"

\* The checkout URL the backend returns
CheckoutUrl == "https://checkout/cs_1"

\* searchParams.get('session_id'): null, the empty text, an id
SessionIds == {<<>>, <<"">>, <<"cs_1">>}

\* The sessions GET /api/stripe/session/{id} may return
Sessions == {[payment_status |-> "paid"], [payment_status |-> "unpaid"]}

ConfigFailedMsg == "Failed to load payment configuration"
CheckoutDefaultMsg == "Failed to create checkout session"
RetrieveDefaultMsg == "Failed to retrieve session"
SignInMsg == "Please sign in to select a plan"
CheckoutToastMsg == "Failed to start checkout process"
NoSessionMsg == "No session ID found"
VerifyFailedMsg == "Failed to verify payment"

\* err.message of an axios error that carries no detail
AxiosMsg == "Request failed"

\* What a request carries: the body of the checkout call, the id of the
\* session call, and for the checkout call the hook error the closure of
\* handleSelectPlan holds.
NoArg ==
    [plan_id |-> "", success_url |-> "", cancel_url |-> "", id |-> "",
     error |-> <<>>]

PayReq(kind, arg) == [kind |-> kind, arg |-> arg, live |-> TRUE]

\* A response: ok is the HTTP outcome, detail is error.response.data.detail,
\* the rest are the members of response.data.
PayAnswer(ok, detail, success, err, url, session) ==
    [ok |-> ok, detail |-> detail, success |-> success, error |-> err,
     url |-> url, session |-> session]

NoAnswer == PayAnswer(FALSE, <<>>, FALSE, <<>>, <<>>, <<>>)

\* The answers the backend can give to a request.
PayAnswers(q) ==
    {PayAnswer(FALSE, d, FALSE, <<>>, <<>>, <<>>) : d \in {<<>>, <<"detail">>}}
    \cup
    CASE q.kind = "config" -> {PayAnswer(TRUE, <<>>, TRUE, <<>>, <<>>, <<>>)}
      [] q.kind = "checkout" ->
           {PayAnswer(TRUE, <<>>, TRUE, <<>>, u, <<>>) : u \in {<<>>, <<CheckoutUrl>>}}
           \cup {PayAnswer(TRUE, <<>>, FALSE, e, <<>>, <<>>) : e \in {<<>>, <<"declined">>}}
      [] q.kind = "session" ->
           {PayAnswer(TRUE, <<>>, TRUE, <<>>, <<>>, s) :
                s \in {<<>>} \cup {<<x>> : x \in Sessions}}
           \cup {PayAnswer(TRUE, <<>>, FALSE, <<>>, <<>>, <<>>)}

\* The response reports success: the request succeeded and
\* response.data.success is truthy.
ReportsSuccess(a) == a.ok /\ a.success

\* err.response?.data?.detail || err.message || <fallback>, for the error of
\* a failed request or the Error thrown for a response without success
\* (response.data.error || default).  err.message is never empty, so the
\* fallback is never reached.
HookErrorMessage(a, default) ==
    IF ~a.ok THEN (IF a.detail # <<>> THEN a.detail[1] ELSE AxiosMsg)
    ELSE IF a.error # <<>> THEN a.error[1] ELSE default

hookState == <<stripeConfig, hkLoading, hkError>>
pricingState == <<selectedPlan, processingPlan>>
successState == <<sessionData, psLoading, psError>>

PayLast(op, end, live, arg, ans) ==
    [op |-> op, end |-> end, live |-> live, arg |-> arg, ans |-> ans]

\* The state of a page that has just been rendered for the first time.
PayFresh ==
    /\ payPhase' = "rendered"
    /\ stripeConfig' = <<>>
    /\ hkLoading' = TRUE
    /\ hkError' = <<>>
    /\ selectedPlan' = <<>>
    /\ processingPlan' = <<>>
    /\ sessionData' = <<>>
    /\ psLoading' = TRUE
    /\ psError' = <<>>
    /\ payIssued' = {}

PayInit ==
    /\ payView \in {"pricing", "success"}
    /\ payPhase = "rendered"
    /\ payUser \in BOOLEAN
    /\ stripeConfig = <<>>
    /\ hkLoading = TRUE
    /\ hkError = <<>>
    /\ selectedPlan = <<>>
    /\ processingPlan = <<>>
    /\ sessionId \in SessionIds
    /\ payView = "pricing" => sessionId = <<>>
    /\ sessionData = <<>>
    /\ psLoading = TRUE
    /\ psError = <<>>
    /\ payReqs = <<>>
    /\ location = <<>>
    /\ payToast = <<>>
    /\ payIssued = {}
    /\ payLast = PayLast("open", "none", TRUE, NoArg, NoAnswer)

\* A text is truthy when it is there and not empty.
TruthyText(v) == v # <<>> /\ v[1] # ""

\* The effects of the first render.  useStripe's effect calls
\* fetchStripeConfig(); PaymentSuccess's effect then calls
\* fetchSessionData(sessionId), which goes through retrieveSession, or sets
\* the error when the URL holds no session id.
PayMount ==
    /\ payPhase = "rendered"
    /\ payPhase' = "mounted"
    /\ hkLoading' = TRUE
    /\ IF payView = "success" /\ TruthyText(sessionId)
         THEN /\ Len(payReqs) + 2 <= MaxReqs
              /\ payReqs' = payReqs \o
                    <<PayReq("config", NoArg),
                      PayReq("session", [NoArg EXCEPT !.id = sessionId[1]])>>
              /\ payIssued' = payIssued \cup {"config", "session"}
              /\ psLoading' = TRUE
              /\ UNCHANGED psError
         ELSE /\ Len(payReqs) + 1 <= MaxReqs
              /\ payReqs' = Append(payReqs, PayReq("config", NoArg))
              /\ payIssued' = payIssued \cup {"config"}
              /\ IF payView = "success"
                   THEN psError' = <<NoSessionMsg>> /\ psLoading' = FALSE
                   ELSE UNCHANGED <<psError, psLoading>>
    /\ payLast' = PayLast("mount", "none", TRUE, NoArg, NoAnswer)
    /\ payToast' = <<>>
    /\ UNCHANGED <<payView, payUser, stripeConfig, hkError, pricingState,
                   sessionId, sessionData, location>>
    /\ UNCHANGED notPay

\* fetchStripeConfig after its await.  State setters of an unmounted
\* component do nothing.
fetchStripeConfigResume(i, a) ==
    LET q == payReqs[i] IN
    /\ q.kind = "config"
    /\ payReqs' = RemoveAt(payReqs, i)
    /\ IF q.live
         THEN /\ IF a.ok
                   THEN stripeConfig' = <<"pk">> /\ hkError' = <<>>
                   ELSE hkError' = <<ConfigFailedMsg>> /\ UNCHANGED stripeConfig
              /\ hkLoading' = FALSE
         ELSE UNCHANGED hookState
    /\ payLast' = PayLast("config", IF a.ok THEN "returned" ELSE "caught",
                          q.live, q.arg, a)
    /\ payToast' = <<>>
    /\ UNCHANGED <<payView, payPhase, payUser, pricingState, sessionId,
                   successState, location, payIssued>>
    /\ UNCHANGED notPay


\* Faulty variant: a plan selection that skips the signed-in check
handleSelectPlan_noUserCheck(plan) ==
    /\ payView = "pricing" /\ payPhase = "mounted"
    /\ ~(processingPlan = <<plan>> \/ hkLoading)
    /\ Len(payReqs) < MaxReqs
    /\ selectedPlan' = <<plan>>
    /\ processingPlan' = <<plan>>
    /\ hkError' = <<>>
    /\ hkLoading' = TRUE
    /\ LET arg == [NoArg EXCEPT !.plan_id = plan,
                                !.success_url = SuccessUrl,
                                !.cancel_url = CancelUrl,
                                !.error = hkError] IN
       /\ payReqs' = Append(payReqs, PayReq("checkout", arg))
       /\ payLast' = PayLast("select", "sent", TRUE, arg, NoAnswer)
    /\ payIssued' = payIssued \cup {"checkout"}
    /\ payToast' = <<>>
    /\ UNCHANGED <<payView, payPhase, payUser, stripeConfig, sessionId,
                   successState, location>>
    /\ UNCHANGED notPay

\* handleSelectPlan(plan) of Pricing, from the plan's button (disabled while
\* that plan is processing or the hook is loading), up to the await inside
\* createCheckoutSession.
handleSelectPlan(plan) ==
    /\ payView = "pricing" /\ payPhase = "mounted"
    /\ ~(processingPlan = <<plan>> \/ hkLoading)
    /\ IF ~payUser
         THEN \* toast.error('Please sign in to select a plan'); return
              /\ payToast' = <<SignInMsg>>
              /\ payLast' = PayLast("select", "refused", TRUE, NoArg, NoAnswer)
              /\ UNCHANGED <<pricingState, hookState, payReqs, payIssued>>
         ELSE /\ Len(payReqs) < MaxReqs
              /\ selectedPlan' = <<plan>>
              /\ processingPlan' = <<plan>>
              \* clearError(), then createCheckoutSession: setLoading(true)
              /\ hkError' = <<>>
              /\ hkLoading' = TRUE
              /\ LET arg == [NoArg EXCEPT !.plan_id = plan,
                                          !.success_url = SuccessUrl,
                                          !.cancel_url = CancelUrl,
                                          !.error = hkError] IN
                 /\ payReqs' = Append(payReqs, PayReq("checkout", arg))
                 /\ payLast' = PayLast("select", "sent", TRUE, arg, NoAnswer)
              /\ payIssued' = payIssued \cup {"checkout"}
              /\ payToast' = <<>>
              /\ UNCHANGED stripeConfig
    /\ UNCHANGED <<payView, payPhase, payUser, sessionId, successState,
                   location>>
    /\ UNCHANGED notPay

\* window.location.href = url: the document is replaced by the checkout
\* page, whatever was in flight goes with it.
RedirectTo(url) ==
    /\ location' = <<IF url = <<>> THEN "undefined" ELSE url[1]>>
    /\ payView' = "stripe"
    /\ payPhase' = "unmounted"
    /\ payReqs' = <<>>

\* Faulty variant: a redirect for every response that arrived
createCheckoutSessionResume_anyResponse(i, a) ==
    LET q == payReqs[i] IN
    /\ q.kind = "checkout"
    /\ IF a.ok
         THEN /\ RedirectTo(a.url)
              /\ payLast' = PayLast("checkout", "returned", q.live, q.arg, a)
              /\ payToast' = <<>>
              /\ UNCHANGED hkError
         ELSE /\ payReqs' = RemoveAt(payReqs, i)
              /\ hkError' = IF q.live
                              THEN <<HookErrorMessage(a, CheckoutDefaultMsg)>>
                              ELSE hkError
              /\ payToast' = IF q.arg.error # <<>> THEN q.arg.error
                             ELSE <<CheckoutToastMsg>>
              /\ payLast' = PayLast("checkout", "thrown", q.live, q.arg, a)
              /\ UNCHANGED <<location, payView, payPhase>>
    /\ hkLoading' = IF q.live THEN FALSE ELSE hkLoading
    /\ processingPlan' = IF q.live THEN <<>> ELSE processingPlan
    /\ UNCHANGED <<payUser, stripeConfig, selectedPlan, sessionId,
                   successState, payIssued>>
    /\ UNCHANGED notPay

\* createCheckoutSession after its await, for the response a to request i,
\* and the rest of handleSelectPlan, which awaited it: on a return
\* setProcessingPlan(null); on a throw the catch's toast, which shows the
\* hook error the closure holds, then setProcessingPlan(null).
createCheckoutSessionResume(i, a) ==
    LET q == payReqs[i] IN
    /\ q.kind = "checkout"
    /\ IF ReportsSuccess(a)
         THEN /\ RedirectTo(a.url)
              /\ payLast' = PayLast("checkout", "returned", q.live, q.arg, a)
              /\ payToast' = <<>>
              /\ UNCHANGED hkError
         ELSE \* catch: setError(...); throw err
              /\ payReqs' = RemoveAt(payReqs, i)
              /\ hkError' = IF q.live
                              THEN <<HookErrorMessage(a, CheckoutDefaultMsg)>>
                              ELSE hkError
              /\ payToast' = IF q.arg.error # <<>> THEN q.arg.error
                             ELSE <<CheckoutToastMsg>>
              /\ payLast' = PayLast("checkout", "thrown", q.live, q.arg, a)
              /\ UNCHANGED <<location, payView, payPhase>>
    \* finally: setLoading(false)
    /\ hkLoading' = IF q.live THEN FALSE ELSE hkLoading
    /\ processingPlan' = IF q.live THEN <<>> ELSE processingPlan
    /\ UNCHANGED <<payUser, stripeConfig, selectedPlan, sessionId,
                   successState, payIssued>>
    /\ UNCHANGED notPay

\* retrieveSession after its await, and the rest of fetchSessionData, which
\* awaited it.
fetchSessionDataResume(i, a) ==
    LET q == payReqs[i] IN
    /\ q.kind = "session"
    /\ payReqs' = RemoveAt(payReqs, i)
    /\ IF q.live
         THEN /\ IF ReportsSuccess(a)
                   THEN /\ sessionData' = a.session
                        /\ UNCHANGED <<psError, hkError>>
                   ELSE /\ hkError' = <<HookErrorMessage(a, RetrieveDefaultMsg)>>
                        /\ psError' = <<VerifyFailedMsg>>
                        /\ UNCHANGED sessionData
              /\ hkLoading' = FALSE
              /\ psLoading' = FALSE
         ELSE UNCHANGED <<sessionData, psError, psLoading, hkError, hkLoading>>
    /\ payLast' = PayLast("session",
                          IF ReportsSuccess(a) THEN "returned" ELSE "thrown",
                          q.live, q.arg, a)
    /\ payToast' = <<>>
    /\ UNCHANGED <<payView, payPhase, payUser, stripeConfig, pricingState,
                   sessionId, location, payIssued>>
    /\ UNCHANGED notPay

\* A response reaches the code that awaits it.
ReceivePay ==
    \E i \in 1..Len(payReqs) : \E a \in PayAnswers(payReqs[i]) :
        \/ fetchStripeConfigResume(i, a)
        \/ createCheckoutSessionResume(i, a)
        \/ fetchSessionDataResume(i, a)

\* The user prop changes: a sign-in through the modal, a logout.
PayUserChanges ==
    /\ payPhase = "mounted"
    /\ payUser' = ~payUser
    /\ payLast' = PayLast("user", "none", TRUE, NoArg, NoAnswer)
    /\ payToast' = <<>>
    /\ UNCHANGED <<payView, payPhase, hookState, pricingState, sessionId,
                   successState, payReqs, location, payIssued>>
    /\ UNCHANGED notPay

\* The user follows a link to another view: the page is unmounted.  Of its
\* requests only a checkout call still acts when its response arrives.
PayLeave ==
    /\ payPhase = "mounted"
    /\ payView' = "other"
    /\ payPhase' = "unmounted"
    /\ stripeConfig' = <<>>
    /\ hkLoading' = TRUE
    /\ hkError' = <<>>
    /\ selectedPlan' = <<>>
    /\ processingPlan' = <<>>
    /\ sessionData' = <<>>
    /\ psLoading' = TRUE
    /\ psError' = <<>>
    /\ payIssued' = {}
    /\ sessionId' = <<>>
    /\ payReqs' = [k \in 1..Len(SelectSeq(payReqs, LAMBDA q : q.kind = "checkout")) |->
                     [SelectSeq(payReqs, LAMBDA q : q.kind = "checkout")[k]
                        EXCEPT !.live = FALSE]]
    /\ payLast' = PayLast("leave", "none", TRUE, NoArg, NoAnswer)
    /\ payToast' = <<>>
    /\ UNCHANGED <<payUser, location>>
    /\ UNCHANGED notPay

\* A payment page is opened: by a link from another view, or by the
\* checkout page sending the browser back.
PayOpen ==
    /\ payPhase = "unmounted"
    /\ \E v \in {"pricing", "success"}, sid \in SessionIds :
          /\ v = "pricing" => sid = <<>>
          /\ payView = "stripe" => v = "success" \/ sid = <<>>
          /\ payView' = v
          /\ sessionId' = sid
    /\ PayFresh
    /\ location' = <<>>
    /\ payLast' = PayLast("open", "none", TRUE, NoArg, NoAnswer)
    /\ payToast' = <<>>
    /\ UNCHANGED <<payUser, payReqs>>
    /\ UNCHANGED notPay

\* Faulty variant: the confirmation shown for every retrieved session
PSView_anySession ==
    IF psLoading THEN "verifying"
    ELSE IF psError # <<>> THEN "error"
    ELSE IF sessionData # <<>> THEN "successful"
    ELSE "processing"

\* What PaymentSuccess renders: the early returns for loading and error,
\* then the confirmation or the 'Payment Processing' view.
PSView ==
    IF psLoading THEN "verifying"
    ELSE IF psError # <<>> THEN "error"
    ELSE IF sessionData # <<>> /\ sessionData[1].payment_status = "paid"
      THEN "successful"
    ELSE "processing"

\* 'Check Status Again': window.location.reload()
PayReload ==
    /\ payView = "success" /\ payPhase = "mounted"
    /\ PSView = "processing"
    /\ PayFresh
    /\ payReqs' = <<>>
    /\ payLast' = PayLast("reload", "none", TRUE, NoArg, NoAnswer)
    /\ payToast' = <<>>
    /\ UNCHANGED <<payView, payUser, sessionId, location>>
    /\ UNCHANGED notPay

PayNext ==
    \/ PayMount
    \/ \E plan \in PricingPlans : handleSelectPlan(plan)
    \/ ReceivePay
    \/ PayUserChanges
    \/ PayLeave
    \/ PayOpen
    \/ PayReload

\* ------------------------------------------------------- specifications
\* Each specification runs one component; the others are parked.
PTIdle ==
    /\ now = 0
    /\ ptPhase = "unmounted"
    /\ interval = <<>>
    /\ navTimers = <<>>
    /\ requests = 0
    /\ responses = <<>>
    /\ srvProgress = 0
    /\ progress = <<>>
    /\ ptLoading = TRUE
    /\ error = "null"
    /\ route = "dashboard"
    /\ issued = 0
    /\ ticks = 0
    /\ navCount = 0
    /\ hundredAt = <<>>
    /\ navAt = <<>>
    /\ seen404 = FALSE

SessIdle ==
    /\ user = <<>>
    /\ localStorage = <<>>
    /\ authHeader = <<>>
    /\ appLoading = FALSE
    /\ showAuth = FALSE
    /\ loginArg = <<>>
    /\ loggedOut = FALSE
    /\ reloaded = FALSE
    /\ lastReqAuth = <<>>
    /\ path = "/"
    /\ pending = 0
    /\ lastStatus = 0
    /\ lastOp = "start"

PCIdle ==
    /\ activeTab = "prompt"
    /\ title = <<>>
    /\ prompt = <<>>
    /\ content = <<>>
    /\ genre = "ebook"
    /\ uploadedFile = <<>>
    /\ pcLoading = FALSE
    /\ uploads = 0
    /\ lastDrop = <<>>
    /\ sub = <<>>
    /\ pcRoute = "dashboard"

WSIdle ==
    /\ srvStatus = [id \in Ids |-> "draft"]
    /\ wsRoute = "other"
    /\ projects = <<>>
    /\ dbLoading = TRUE
    /\ stats = [total |-> 0, completed |-> 0, processing |-> 0]
    /\ lastList = <<>>
    /\ dbReqs = <<>>
    /\ peId = 0
    /\ project = <<>>
    /\ peLoading = TRUE
    /\ saving = FALSE
    /\ coverGenerating = FALSE
    /\ audioGenerating = FALSE
    /\ peTitle = <<>>
    /\ peAuthor = <<>>
    /\ peDescription = <<>>
    /\ peContent = <<>>
    /\ lastDetail = <<>>
    /\ together = FALSE
    /\ peReqs = <<>>
    /\ edits = 0

ErrIdle ==
    /\ errDetail = <<>>
    /\ errCaught = "no"
    /\ errToast = <<>>

LPIdle ==
    /\ lpMounted = FALSE
    /\ subscriptionPlans = <<>>
    /\ dpLoading = TRUE
    /\ dpLive = 0
    /\ dpDead = 0
    /\ dpToast = <<>>
    /\ dpUncaught = FALSE
    /\ dpFailed = FALSE
    /\ subPosts = 0

PayIdle ==
    /\ payView = "other"
    /\ payPhase = "unmounted"
    /\ payUser = FALSE
    /\ stripeConfig = <<>>
    /\ hkLoading = TRUE
    /\ hkError = <<>>
    /\ selectedPlan = <<>>
    /\ processingPlan = <<>>
    /\ sessionId = <<>>
    /\ sessionData = <<>>
    /\ psLoading = TRUE
    /\ psError = <<>>
    /\ payReqs = <<>>
    /\ location = <<>>
    /\ payToast = <<>>
    /\ payIssued = {}
    /\ payLast = PayLast("open", "none", TRUE, NoArg, NoAnswer)

InitTracker == PTInit /\ SessIdle /\ PCIdle /\ WSIdle /\ ErrIdle /\ LPIdle /\ PayIdle
InitSession == SessInit /\ PTIdle /\ PCIdle /\ WSIdle /\ ErrIdle /\ LPIdle /\ PayIdle
InitCreator == PCInit /\ PTIdle /\ SessIdle /\ WSIdle /\ ErrIdle /\ LPIdle /\ PayIdle
InitWorkspace == WSInit /\ PTIdle /\ SessIdle /\ PCIdle /\ ErrIdle /\ LPIdle /\ PayIdle
InitCreatorError == ErrInit /\ PTIdle /\ SessIdle /\ PCIdle /\ WSIdle /\ LPIdle /\ PayIdle
InitLanding == SessInit /\ LPInit /\ PTIdle /\ PCIdle /\ WSIdle /\ ErrIdle /\ PayIdle
InitPayments == PayInit /\ PTIdle /\ SessIdle /\ PCIdle /\ WSIdle /\ ErrIdle /\ LPIdle

SpecTracker == InitTracker /\ [][PTNext]_vars

SpecSession == InitSession /\ [][SessNext]_vars

SpecCreator == InitCreator /\ [][PCNext]_vars

SpecWorkspace == InitWorkspace /\ [][WSNext]_vars

SpecCreatorError == InitCreatorError /\ [][ErrNext]_vars

SpecLanding == InitLanding /\ [][LPNext]_vars

SpecPayments == InitPayments /\ [][PayNext]_vars

\* What the tracker renders: the loading spinner, the error view or the
\* progress view (the early returns of the render function).
PTView ==
    IF ptLoading THEN "loading"
    ELSE IF error # "null" THEN "error"
    ELSE "progress"

\* {progress?.overall_progress || 0}%
ShownPercent == IF progress = <<>> \/ progress[1] = 0 THEN 0 ELSE progress[1]

\* style={{ width: `${progress?.overall_progress || 0}%` }}
BarWidth == IF progress = <<>> \/ progress[1] = 0 THEN 0 ELSE progress[1]

\* ------------------------------------------------------------------ claims

\* C1: while the tracker is mounted, the number of progress requests issued
\* is one (the request at mount) plus the number of interval ticks, and the
\* ticks follow the clock: the k-th tick is due 2k seconds after the mount
\* and is never late or early, whatever the earlier requests returned.
C1_OneRequestPerTick ==
    ptPhase = "mounted" =>
        /\ issued = 1 + ticks
        /\ interval = <<PollIntervalSec * (ticks + 1)>>
        /\ now <= interval[1]
        /\ interval[1] <= now + PollIntervalSec

C1_Witness ==
    /\ ptPhase = "mounted"
    /\ ticks = 2
    /\ issued = 3
    /\ error = FailedMsg

\* C2: the tracker navigates to /project/{id} at most once, and the
\* navigation happens 2 seconds after the first response that reported 100.
C2_NavigatesExactlyOnce ==
    /\ navCount <= 1
    /\ navAt # <<>> =>
          /\ hundredAt # <<>>
          /\ navAt[1] = hundredAt[1] + RedirectDelaySec

\* C3: after login(userData) with a token t, local storage holds the
\* serialised userData; past the loading gate (also after a reload) the user
\* state is userData and the Authorization header is 'Bearer t', and every
\* request issued since carried 'Bearer t'.
C3_SessionPersists ==
    (loginArg # <<>> /\ Truthy(loginArg[1].access_token)) =>
        /\ localStorage = <<JSONstringify(loginArg[1])>>
        /\ ~appLoading =>
              /\ user = loginArg
              /\ authHeader = Bearer(loginArg[1].access_token)
        /\ lastReqAuth # <<>> =>
              lastReqAuth = <<Bearer(loginArg[1].access_token)>>

C3_Witness ==
    /\ loginArg # <<>>
    /\ loginArg[1].access_token = "t1"
    /\ loginArg[1].full_name = Undefined
    /\ reloaded
    /\ ~appLoading
    /\ user = loginArg
    /\ lastReqAuth = <<Bearer("t1")>>

\* C4: after logout() the user state is null, the local-storage key is
\* absent, the Authorization header is absent and no request carries one;
\* this also holds across a reload.
C4_LogoutClears ==
    loggedOut =>
        /\ user = <<>>
        /\ localStorage = <<>>
        /\ authHeader = <<>>
        /\ lastReqAuth # <<>> => lastReqAuth = <<(<<>>)>>

C4_Witness ==
    /\ loggedOut
    /\ reloaded
    /\ ~appLoading
    /\ lastReqAuth = <<(<<>>)>>

\* C5: a submission that passes the validation issues POST /api/projects
\* first; POST /api/ai/generate-book follows only a successful create call
\* and only in a generation flow (tab 'prompt', or tab 'upload' with genre
\* 'audiobook'); a finished generation flow made exactly these two calls,
\* both succeeded, and navigated to /progress/{id}; a finished direct flow
\* made exactly one call and navigated to /project/{id}; after a failed call
\* there is no navigation.
C5_SubmitSequence ==
    (sub # <<>> /\ sub[1].pc # "rejected") =>
        LET s == sub[1]
            gen == s.form.tab = "prompt"
                     \/ (s.form.tab = "upload" /\ s.form.genre = "audiobook")
        IN
        /\ s.calls \in {<<CreateCall>>, <<CreateCall, GenerateCall>>}
        /\ Len(s.calls) = 2 => (gen /\ s.results[1] = "ok")
        /\ s.pc = "done" =>
              IF gen
                THEN /\ s.calls = <<CreateCall, GenerateCall>>
                     /\ s.results = <<"ok", "ok">>
                     /\ s.nav = "progress"
                ELSE /\ s.calls = <<CreateCall>>
                     /\ s.results = <<"ok">>
                     /\ s.nav = "project"
        /\ s.nav # "none" => (s.pc = "done" /\ pcRoute = s.nav)
        /\ (\E i \in 1..Len(s.results) : s.results[i] = "fail") =>
              (s.nav = "none" /\ s.pc = "failed")

C5_Witness ==
    /\ sub # <<>>
    /\ sub[1].pc = "done"
    /\ sub[1].form.tab = "upload"
    /\ sub[1].form.genre = "audiobook"
    /\ sub[1].nav = "progress"
    /\ activeTab = "prompt"

\* C6: a submission whose form fails the validation (a blank title; in the
\* prompt tab an empty prompt for a genre other than audiobook, or for an
\* audiobook neither an uploaded file nor a prompt; in the upload tab empty
\* content) makes no network call and does not navigate.
Blank(text) == \A i \in 1..Len(text) : text[i] = " "

C6_Invalid(form) ==
    \/ Blank(form.title)
    \/ form.tab = "prompt" /\ form.genre # "audiobook" /\ form.prompt = <<>>
    \/ form.tab = "prompt" /\ form.genre = "audiobook"
          /\ form.file = <<>> /\ form.prompt = <<>>
    \/ form.tab = "upload" /\ form.content = <<>>

C6_InvalidMakesNoCall ==
    (sub # <<>> /\ C6_Invalid(sub[1].form)) =>
        /\ sub[1].calls = <<>>
        /\ sub[1].nav = "none"
        /\ sub[1].pc = "rejected"
        /\ pcRoute \in {"create", "dashboard"}

C6_Witness ==
    /\ sub # <<>>
    /\ sub[1].form.title = <<" ">>
    /\ sub[1].form.prompt = <<"a">>
    /\ sub[1].form.tab = "prompt"
    /\ sub[1].pc = "rejected"

C8_RenderedClamped ==
    (ptPhase = "mounted" /\ PTView = "progress") =>
        /\ ShownPercent \in 0..100
        /\ BarWidth \in 0..100

\* C9: the unmount cancels the polling interval, and an unmounted tracker
\* issues no further progress request.
C9_NoRequestAfterUnmount ==
    [][/\ ptPhase' = "unmounted" => interval' = <<>>
       /\ ptPhase = "unmounted" => issued' = issued]_vars

C9_Witness ==
    /\ ptPhase = "unmounted"
    /\ ticks >= 1
    /\ now > PollIntervalSec * (ticks + 1)
    /\ requests + Len(responses) > 0

\* C10: once a 404 response has been handled, the mounted tracker stays in
\* the "Progress tracking not found" state.
C10_NotFoundTerminal ==
    (ptPhase = "mounted" /\ seen404) =>
        /\ error = NotFoundMsg
        /\ PTView = "error"

\* The step handles a response of status st (and, for 200, value v).
Handles(st, v) ==
    \E i \in 1..Len(responses) :
        /\ responses[i].status = st
        /\ responses[i].overall_progress = v
        /\ responses' = RemoveAt(responses, i)

\* C11: for a mounted tracker, handling a failure other than 404 sets
\* 'Failed to fetch progress' and leaves the polling interval running; in
\* that state the next tick is due within 2 seconds and issues a request;
\* and a successful response handled in that state clears the error and
\* shows the reported progress.
C11_TransientFailure ==
    [][(ptPhase = "mounted" /\ ptPhase' = "mounted") =>
          /\ Handles(500, 0) =>
                /\ error' = FailedMsg
                /\ interval' = interval
                /\ interval # <<>>
          /\ error = FailedMsg =>
                /\ interval # <<>>
                /\ interval[1] <= now + PollIntervalSec
                /\ ticks' = ticks + 1 => issued' = issued + 1
          /\ \A v \in ProgressValues :
                (error = FailedMsg /\ Handles(200, v)) =>
                    /\ error' = "null"
                    /\ progress' = <<v>>
                    /\ PTView' = "progress"]_vars

C11_Witness ==
    /\ ptPhase = "mounted"
    /\ error = FailedMsg
    /\ ticks >= 1
    /\ issued = ticks + 1
    /\ \E i \in 1..Len(responses) : responses[i].status = 200

\* C12: as long as no response has reported overall_progress 100, the
\* tracker has not navigated to /project/{id}; while mounted it keeps its
\* polling interval, the next tick being due within 2 seconds however many
\* ticks have passed; and it has been left only by a manual navigation.
C12_PollsForever ==
    hundredAt = <<>> =>
        /\ navCount = 0
        /\ navTimers = <<>>
        /\ route \in {"progress", "dashboard"}
        /\ ptPhase = "mounted" =>
              /\ route = "progress"
              /\ interval # <<>>
              /\ interval[1] <= now + PollIntervalSec
              /\ issued = ticks + 1
        /\ ptPhase = "unmounted" => route = "dashboard"

C12_Witness ==
    /\ hundredAt = <<>>
    /\ ptPhase = "mounted"
    /\ ticks >= 2
    /\ srvProgress = 150
    /\ progress = <<150>>
    /\ error = "null"

\* C13: the overall_progress held in the client's progress state never
\* decreases (the server's value never decreases: ServerAdvance).
C13_ProgressMonotonic ==
    [][(progress # <<>> /\ progress' # <<>>) => progress'[1] >= progress[1]]_vars

\* ------------------------------------------------------------------
\* C14: on start-up with a persisted session, nothing but the loading screen
\* is rendered until the user state has been restored from local storage
\* and, when the stored record carries a token, the Authorization header set:
\* whenever a route element (a view or a redirect) is rendered and a session
\* is persisted, the user state is the stored record and the header is its
\* token's.
ProtectedViews ==
    {View("Dashboard"), View("ProjectCreator"), View("ProjectEditor"),
     View("ProgressTracker")}

C14_LoadingGate ==
    /\ appLoading => Rendered = View("loading")
    /\ (localStorage # <<>> /\ Rendered # View("loading")) =>
          /\ user = <<JSONparse(localStorage[1])>>
          /\ Truthy(user[1].access_token) =>
                authHeader = Bearer(user[1].access_token)

C14_Witness ==
    /\ reloaded /\ lastOp = "restore"
    /\ localStorage # <<>> /\ path = "/dashboard"
    /\ Rendered = View("Dashboard")
    /\ authHeader # <<>>

\* C15: the four protected views are rendered only while a user is signed
\* in and the Admin Panel only while the user's tier is 'admin'; on those
\* routes every other case past the loading gate renders the redirect to
\* '/', also right after a logout on a protected route.
C15_RouteGuards ==
    /\ Rendered \in ProtectedViews => user # <<>>
    /\ Rendered = View("AdminPanel") =>
          (user # <<>> /\ user[1].subscription_tier = "admin")
    /\ (~appLoading /\ path \in Paths \ {"/"}
          /\ Rendered \notin ProtectedViews \cup {View("AdminPanel")}) =>
          Rendered = [to |-> "/"]
    /\ (lastOp = "logout" /\ path # "/") => Rendered = [to |-> "/"]

C15_Witness ==
    /\ lastOp = "logout" /\ path = "/project" /\ Rendered = [to |-> "/"]

\* C16: the session (user state, local-storage key, Authorization header)
\* changes only in a login, a logout or the start-up of the application
\* (reload and restore); every other operation leaves the three unchanged,
\* in particular the handling of a response with status 401.
Session == <<user, localStorage, authHeader>>

SaveHandled(i) ==
    /\ peReqs[i].kind = "save" /\ peReqs[i].live
    /\ peReqs' = RemoveAt(peReqs, i)

\* Each in-flight flag (the only thing that disables a button) tells of its
\* own request alone.
OwnFlags ==
    (wsRoute = "project" /\ project # <<>>) =>
        /\ saving = HasLive(peReqs, "save")
        /\ coverGenerating = HasLive(peReqs, "cover")
        /\ audioGenerating = HasLive(peReqs, "audio")

\* C19: save, generate-cover and generate-audio do not exclude one another:
\* an action in flight disables its own button only.  The handling of a save
\* response leaves the project record as it is or replaces exactly title,
\* author, description and content by what was sent, keeping the cover URL
\* of that moment; the handling of a cover response changes nothing but the
\* cover URL.  So when both succeed, in either order, the record holds both.
C19_SaveAndCoverMerge ==
    [][/\ OwnFlags /\ OwnFlags'
       /\ (wsRoute = "project" /\ project # <<>> /\ project' # <<>>) =>
             /\ \A i \in 1..Len(peReqs) :
                   SaveHandled(i) =>
                      \/ project' = project
                      \/ project' = <<[project[1] EXCEPT
                                         !.title = <<peReqs[i].arg.title>>,
                                         !.author = <<peReqs[i].arg.author>>,
                                         !.description = <<peReqs[i].arg.description>>,
                                         !.content = <<peReqs[i].arg.content>>]>>
             /\ (\E i \in 1..Len(peReqs) :
                    /\ peReqs[i].kind = "cover" /\ peReqs[i].live
                    /\ peReqs' = RemoveAt(peReqs, i)) =>
                   \E url \in {project[1].cover_image_url} \cup {<<u>> : u \in Urls} :
                      project' = <<[project[1] EXCEPT !.cover_image_url = url]>>]_vars

C19_Witness ==
    /\ wsRoute = "project" /\ project # <<>>
    /\ together /\ ~saving /\ ~coverGenerating
    /\ peTitle = <<" ">>
    /\ project[1].cover_image_url = <<"u2">>
    /\ project[1].title = << <<" ">> >>
    /\ project[1].generated_content = << <<" ">> >>

\* The step handles the response to a cover request of the mounted editor.
CoverHandled ==
    \E i \in 1..Len(peReqs) :
        /\ peReqs[i].kind = "cover" /\ peReqs[i].live
        /\ peReqs' = RemoveAt(peReqs, i)

\* The step issues a cover request.
CoverIssued ==
    \E i \in 1..Len(peReqs') :
        /\ peReqs'[i].kind = "cover"
        /\ peReqs = RemoveAt(peReqs', i)

\* C20: the cover URL of the project record is replaced only by the handling
\* of a cover response, and only by the URL of a response that succeeded and
\* reports success; with a blank title no request is issued; the handling of
\* any other response leaves the project record as it was; and whatever the
\* response, the in-flight flag is cleared.
C20_CoverOnlyOnSuccess ==
    [][(wsRoute = "project" /\ project # <<>> /\ project' # <<>>) =>
          /\ project'[1].cover_image_url # project[1].cover_image_url =>
                CoverHandled
          /\ CoverIssued => Trim(peTitle) # <<>>
          /\ CoverHandled =>
                /\ ~coverGenerating'
                /\ \/ project' = project
                   \/ \E url \in Urls :
                         project' = <<[project[1] EXCEPT !.cover_image_url = <<url>>]>>]_vars

C20_Witness ==
    /\ wsRoute = "project" /\ project # <<>>
    /\ ~coverGenerating /\ ~together
    /\ project[1].cover_image_url = <<"u2">>
    /\ project[1].title = <<>>

\* ------------------------------------------------------------------
\* The message the statement of C18 gives for a detail, read in the code's
\* favour: an empty string detail counts as no detail and an empty msg as no
\* msg.
C18_ItemText(err) ==
    IF err.t = "str" THEN err.s
    ELSE IF Prop(err, "msg") \notin {JUndefined, Str("")}
      THEN (IF Prop(err, "loc") # JUndefined
              THEN Join([k \in 1..Len(Prop(err, "loc").items) |->
                            Prop(err, "loc").items[k].s], ".") \o ": "
              ELSE "")
           \o Prop(err, "msg").s
    ELSE Stringify(err)

C18_Text(detail) ==
    IF detail \in {<<>>, <<JNull>>, <<Str("")>>} THEN "Failed to create project"
    ELSE LET d == detail[1] IN
      CASE d.t = "str" -> d.s
        [] d.t = "arr" ->
             Join([k \in 1..Len(d.items) |-> C18_ItemText(d.items[k])], ", ")
        [] d.t = "obj" -> Stringify(d)

\* C18: after a failed submission a message is displayed, and it is the
\* detail normalised by shape: a string as is, an array as its items joined
\* by ', ' (a string item as is, an item with msg as '<loc joined by .>: <msg>'
\* or the msg alone, any other item as its JSON text), an object as its JSON
\* text, no detail as the default 'Failed to create project'.
C18_MessageByShape ==
    errCaught # "no" =>
        /\ errCaught = "shown"
        /\ errToast = <<C18_Text(errDetail)>>

\* ------------------------------------------------------------------
\* C25: once the Progress Tracker is unmounted, none of its timers is pending
\* and none fires: no navigation timer scheduled before the unmount is left,
\* no response handled after the unmount schedules one, and no
\* navigate('/project/{id}') is called.
C25_NoTimerAfterUnmount ==
    [][ptPhase = "unmounted" =>
          /\ navTimers = <<>> /\ navTimers' = <<>>
          /\ navCount' = navCount]_vars

\* C26: the Authorization header matches the current session: it is absent
\* while no user is signed in, and while a user is signed in it is the
\* Bearer header of that user record's access_token (absent for a record
\* that carries no token), never the header of an earlier session.
C26_HeaderMatchesSession ==
    /\ user = <<>> => authHeader = <<>>
    /\ user # <<>> =>
          authHeader = IF Truthy(user[1].access_token)
                         THEN Bearer(user[1].access_token)
                         ELSE <<>>

\* The step is the Dashboard handling the response, with outcome st, to the
\* delete request it keeps at position i.
DeleteHandled(i, st) ==
    /\ i \in 1..Len(dbReqs)
    /\ dbReqs[i].kind = "delete" /\ dbReqs[i].live /\ dbReqs[i].state = st
    /\ dbReqs' = RemoveAt(dbReqs, i)

\* C27: on a Dashboard showing its list, the handling of a successful delete
\* response removes the project from the displayed list; a project the server
\* has deleted and the list no longer shows never comes back into the list,
\* whatever delete responses are handled next; and a failed delete (like a
\* declined confirmation) leaves the list as it was.
C27_DeletedStaysDeleted ==
    [][(wsRoute = "dashboard" /\ wsRoute' = "dashboard"
          /\ ~dbLoading /\ ~dbLoading') =>
          /\ \A i \in 1..Len(dbReqs) :
                /\ DeleteHandled(i, "ok") =>
                      dbReqs[i].arg.id \notin ListIds(projects')
                /\ DeleteHandled(i, "fail") => projects' = projects
          /\ \A id \in Ids :
                (srvStatus[id] = "gone" /\ id \notin ListIds(projects)) =>
                    id \notin ListIds(projects')]_vars

\* C28: once the list has loaded, the statistics shown are those of the list
\* shown: total is its length, completed and processing count its projects
\* of that status.
C28_StatsMatchList ==
    (wsRoute = "dashboard" /\ ~dbLoading) =>
        stats = [total |-> Len(projects),
                 completed |-> CountStatus(projects, "completed"),
                 processing |-> CountStatus(projects, "processing")]

\* ------------------------------------------------------------------
\* ProjectCreator, the body of POST /api/ai/generate-book

\* isUploadedAudiobook: formData.genre === 'audiobook' &&
\* uploadedFile?.extracted_text, as a boolean
isUploadedAudiobook(form) ==
    /\ form.genre = "audiobook"
    /\ form.file # <<>>
    /\ form.file[1].extracted_text # <<>>

\* generateRequest, the two members that carry the text: prompt is a text,
\* uploaded_content is <<>> for null or <<the text>>.
generateRequest(form) ==
    [prompt |-> IF isUploadedAudiobook(form) THEN <<>> ELSE form.prompt,
     uploaded_content |-> IF isUploadedAudiobook(form)
                            THEN <<form.file[1].extracted_text>>
                            ELSE <<>>]

\* C29: every generate-book request of the Project Creator carries a
\* non-empty prompt or a non-empty uploaded_content.
C29_GenerateHasInput ==
    \A k \in 1..(IF sub = <<>> THEN 0 ELSE Len(sub[1].calls)) :
        sub[1].calls[k] = GenerateCall =>
            LET req == generateRequest(sub[1].form) IN
            \/ req.prompt # <<>>
            \/ req.uploaded_content # <<>> /\ req.uploaded_content[1] # <<>>


\* ---------------------------------------------------------------- C30
\* C30: selecting a plan in the landing page's pricing section never issues
\* POST /api/payments/create-subscription: whenever the landing page is on
\* screen no user is signed in, so no such request has ever been posted, and
\* a plan selection there leaves the sign-in modal open.
C30_LandingNeverSubscribes ==
    /\ subPosts = 0
    /\ (lpMounted /\ Committed) => ~isAuthenticated
    /\ lastOp = "selectPlan" => (showAuth /\ ~isAuthenticated)

\* A plan was selected on the landing page shown after a logout: the modal
\* is open and nothing was posted.
C30_Witness ==
    /\ lastOp = "selectPlan"
    /\ lpMounted
    /\ loggedOut
    /\ showAuth
    /\ subPosts = 0


\* ---------------------------------------------------------------- C24
\* C24: no failure is fatal; in particular, once the pricing section on
\* screen has handled a failed load of the pricing plans, the message
\* 'Failed to load pricing plans' is shown, no error has escaped the handler
\* and the section's loading flag is cleared.
C24_NoFailureFatal ==
    (lpMounted /\ dpFailed) =>
        /\ dpToast = <<PlansFailedMsg>>
        /\ ~dpUncaught
        /\ ~dpLoading


\* ---------------------------------------------------------------- C21
\* C21: when createCheckoutSession has handled the response to its request,
\* the request carried the plan id and both URLs; the page was redirected,
\* to the returned checkout URL, if and only if the response reported
\* success; otherwise the call ended by rethrowing and the hook's error is
\* set to the message of the failure; in every case the loading flag of the
\* hook is false.  (The flags are those of the hook instance that made the
\* call, while it is mounted.)
C21_CheckoutContract ==
    payLast.op = "checkout" =>
        LET a == payLast.ans IN
        /\ payLast.arg.plan_id \in PricingPlans
        /\ payLast.arg.success_url = SuccessUrl
        /\ payLast.arg.cancel_url = CancelUrl
        /\ (location # <<>>) <=> ReportsSuccess(a)
        /\ ReportsSuccess(a) =>
              /\ payLast.end = "returned"
              /\ payView = "stripe"
              /\ a.url # <<>> => location = a.url
        /\ ~ReportsSuccess(a) =>
              /\ payLast.end = "thrown"
              /\ payView # "stripe"
              /\ payLast.live =>
                    /\ hkError # <<>>
                    /\ hkError = <<HookErrorMessage(a, CheckoutDefaultMsg)>>
        /\ payLast.live => ~hkLoading

\* The backend answered the checkout call of the page on screen with a
\* response that reports no success: no redirect, the error is set.
C21_Witness ==
    /\ payLast.op = "checkout"
    /\ payLast.live
    /\ payLast.ans.ok /\ ~payLast.ans.success
    /\ payLast.end = "thrown"
    /\ hkError = <<"declined">>
    /\ location = <<>>
    /\ ~hkLoading


\* ---------------------------------------------------------------- C23
\* The create-checkout-session requests of the page on screen in flight
LiveCheckouts(reqs) ==
    SelectSeq(reqs, LAMBDA q : q.kind = "checkout" /\ q.live)

\* The number of create-checkout-session requests in flight
Checkouts(reqs) == Len(SelectSeq(reqs, LAMBDA q : q.kind = "checkout"))

\* C23: on the Pricing page a step taken while no user is signed in issues no
\* create-checkout-session request, and a plan selection refused for that
\* reason shows 'Please sign in to select a plan'; a selection that sends a
\* request is made by a signed-in user; a plan is marked as processing on
\* the page exactly while the checkout request for it is in flight, and it
\* is unmarked when the request has settled, whether it succeeded or failed.
C23_SelectPlan ==
    [][/\ ~payUser => Checkouts(payReqs') <= Checkouts(payReqs)
       /\ (payLast'.op = "select" /\ payLast'.end = "refused") =>
             /\ ~payUser'
             /\ payToast' = <<SignInMsg>>
             /\ payReqs' = payReqs
             /\ processingPlan' = processingPlan
       /\ (payLast'.op = "select" /\ payLast'.end = "sent") =>
             /\ payUser'
             /\ processingPlan' = <<payLast'.arg.plan_id>>
       /\ \A k \in 1..Len(LiveCheckouts(payReqs')) :
             processingPlan' = <<LiveCheckouts(payReqs')[k].arg.plan_id>>
       /\ (payPhase' = "mounted" /\ processingPlan' # <<>>) =>
             LiveCheckouts(payReqs') # <<>>
       /\ (payLast'.op = "checkout" /\ payLast'.live) => processingPlan' = <<>>
      ]_vars

\* A plan was selected on the Pricing page with no user signed in: the
\* sign-in message is shown and no checkout request is in flight.
C23_Witness ==
    /\ payView = "pricing"
    /\ payLast.op = "select" /\ payLast.end = "refused"
    /\ ~payUser
    /\ payToast = <<SignInMsg>>
    /\ Checkouts(payReqs) = 0
    /\ "checkout" \notin payIssued


\* ---------------------------------------------------------------- C22
\* What the success page shows and holds, apart from what it requested:
\* the confirmation exactly for a retrieved session that is paid, the error
\* without a session id, 'Failed to verify payment' after a failed
\* retrieval, the 'Payment Processing' view for a retrieved session that is
\* not paid.
SuccessPageShows ==
    /\ PSView = "successful" <=>
          (/\ sessionData # <<>>
           /\ sessionData[1].payment_status = "paid"
           /\ ~psLoading /\ psError = <<>>)
    /\ sessionData # <<>> =>
          (TruthyText(sessionId) /\ "session" \in payIssued)
    /\ ~TruthyText(sessionId) =>
          (PSView = "error" /\ psError = <<NoSessionMsg>>)
    /\ (payLast.op = "session" /\ payLast.live) =>
          /\ payLast.arg.id = sessionId[1]
          /\ payLast.end = "thrown" =>
                (PSView = "error" /\ psError = <<VerifyFailedMsg>>)
          /\ payLast.end = "returned" =>
                /\ sessionData = payLast.ans.session
                /\ PSView = IF sessionData # <<>>
                               /\ sessionData[1].payment_status = "paid"
                              THEN "successful" ELSE "processing"

\* C22 as stated: on the mounted payment success page the views are as
\* above, and with no session_id in the URL the page has made no network
\* call at all.
C22_SuccessPage_stated ==
    (payView = "success" /\ payPhase = "mounted") =>
        /\ SuccessPageShows
        /\ ~TruthyText(sessionId) => payIssued = {}

\* C22, amended: on the mounted payment success page the confirmation is
\* shown if and only if a session was retrieved for the session_id of the
\* URL and it is paid; with no session_id the page shows the error 'No
\* session ID found' and requests no session (the only call is the load of
\* the payment configuration that the useStripe hook makes on every mount);
\* a failed retrieval shows 'Failed to verify payment'; a retrieved session
\* that is not paid shows the 'Payment Processing' view.
C22_SuccessPage ==
    (payView = "success" /\ payPhase = "mounted") =>
        /\ SuccessPageShows
        /\ ~TruthyText(sessionId) => payIssued = {"config"}
        /\ TruthyText(sessionId) => payIssued = {"config", "session"}

\* The success page was opened without a session id: it shows 'No session ID
\* found' and the only request made is the load of the configuration.
C22_Witness ==
    /\ payView = "success" /\ payPhase = "mounted"
    /\ sessionId = <<>>
    /\ PSView = "error"
    /\ psError = <<NoSessionMsg>>
    /\ payIssued = {"config"}
====
